---------------------------- MODULE Spec2Model ----------------------------
(***************************************************************************)
(* A model of the 6502 assembler of NES-Emulator (src/bin/6502assembler):  *)
(* the nom line parser, the per-mnemonic validator, the two-pass resolver, *)
(* the byte encoder and the ROM image builder.                             *)
(*                                                                         *)
(* Text is modelled as a sequence of one-character strings, so that the    *)
(* parser is modelled by what it does to the characters.  Option<T> is a   *)
(* sequence of length 0 (None) or 1 (Some).                                *)
(***************************************************************************)
EXTENDS Integers, Sequences, FiniteSets, TLC

VARIABLES
    pc,            \* position of the run / of the function harness
    cpu,           \* the CPU of nes_lib (None where no CPU is built)
    arg,           \* the input of the function under test (harness specs)
    ret,           \* its result (harness specs)
    cmd,           \* Cli.command: "Assemble" or "NES"
    str_lines,     \* the lines read by open_file, terminators stripped
    lines,         \* Vec<(Line, usize)> built by parse_file
    instructions,  \* Vec<Instruction> returned by proccess_instructions
    start_pos,     \* the origin returned by proccess_instructions
    iter,          \* the position of the running loop (parse_file, to_bytes)
    bytes,         \* Vec<u8> accumulated by to_bytes
    padded_bytes,  \* the image add_padding returned (NES)
    output,        \* the contents written to the output file, one per write
    error          \* the error the run reported (None or Some)

vars == <<pc, cpu, arg, ret, cmd, str_lines, lines, instructions, start_pos,
          iter, bytes, padded_bytes, output, error>>

(***************************************************************************)
(* Characters                                                              *)
(***************************************************************************)
UpperLetters == <<"A","B","C","D","E","F","G","H","I","J","K","L","M",
                  "N","O","P","Q","R","S","T","U","V","W","X","Y","Z">>
LowerLetters == <<"a","b","c","d","e","f","g","h","i","j","k","l","m",
                  "n","o","p","q","r","s","t","u","v","w","x","y","z">>
DecimalDigits == <<"0","1","2","3","4","5","6","7","8","9">>

Range(f) == {f[i] : i \in DOMAIN f}

\* char::is_alphabetic / nom alpha1, restricted to ASCII
Alpha == Range(UpperLetters) \cup Range(LowerLetters)
\* char::is_alphanumeric, restricted to ASCII
Alphanumeric == Alpha \cup Range(DecimalDigits)
\* char::is_ascii_hexdigit
HexDigit == Range(DecimalDigits)
                \cup {"A","B","C","D","E","F","a","b","c","d","e","f"}
\* the characters nom's multispace0 / multispace1 consume
Multispace == {" ", "\t", "\r", "\n"}
\* char::is_whitespace, restricted to ASCII
Whitespace == {" ", "\t", "\r", "\n"}

\* str::to_ascii_uppercase and str::to_lowercase on ASCII text
ToUpperChar(c) ==
    IF c \in Range(LowerLetters)
    THEN UpperLetters[CHOOSE i \in DOMAIN LowerLetters : LowerLetters[i] = c]
    ELSE c
ToLowerChar(c) ==
    IF c \in Range(UpperLetters)
    THEN LowerLetters[CHOOSE i \in DOMAIN UpperLetters : UpperLetters[i] = c]
    ELSE c
to_ascii_uppercase(s) == [i \in DOMAIN s |-> ToUpperChar(s[i])]
to_lowercase(s) == [i \in DOMAIN s |-> ToLowerChar(s[i])]

\* char::to_digit(16) of a hexadecimal digit
HexDigitValue(c) ==
    IF c \in Range(DecimalDigits)
    THEN (CHOOSE i \in DOMAIN DecimalDigits : DecimalDigits[i] = c) - 1
    ELSE CASE c \in {"A","a"} -> 10 [] c \in {"B","b"} -> 11
           [] c \in {"C","c"} -> 12 [] c \in {"D","d"} -> 13
           [] c \in {"E","e"} -> 14 [] c \in {"F","f"} -> 15

(***************************************************************************)
(* Option and Result                                                       *)
(***************************************************************************)
None == <<>>
Some(x) == <<x>>
Ok(v) == [ok |-> TRUE, val |-> v]
\* an AssemblerError: its variant, the text of its message, the values
\* formatted into the message and its line field (None when it has none)
Err(kind, msg, args, line) ==
    [ok |-> FALSE, kind |-> kind, msg |-> msg, args |-> args, line |-> line]

(***************************************************************************)
(* nom.  A grammar is a sequence of combinators (nom's `tuple`), each a    *)
(* record; Run interprets it on the text s from position p and yields the  *)
(* position that follows and the tuple of the combinators' outputs.  A     *)
(* position is an index into s: the input left is SubSeq(s, p, Len(s)).    *)
(***************************************************************************)
\* a character class: the characters of S, or all characters but those of S
In(S) == [set |-> S, neg |-> FALSE]
NotIn(S) == [set |-> S, neg |-> TRUE]
Matches(c, cls) == (c \in cls.set) = ~cls.neg

Tag(t) == [op |-> "tag", t |-> t]
TakeWhile(cls) == [op |-> "take_while", min |-> 0, cls |-> cls]
TakeWhile1(cls) == [op |-> "take_while", min |-> 1, cls |-> cls]
TakeWhileMN(m, n, cls) == [op |-> "take_while_m_n", m |-> m, n |-> n, cls |-> cls]
IsNot(S) == TakeWhile1(NotIn(S))
Multispace0 == TakeWhile(In(Multispace))
Multispace1 == TakeWhile1(In(Multispace))
Alpha1 == TakeWhile1(In(Alpha))
Rest == [op |-> "rest"]
Eof == [op |-> "eof"]
NotLineEnding == [op |-> "not_line_ending"]
\* opt(tuple(steps)), alt over tuples (tried in order), peek(tuple(steps))
Opt(steps) == [op |-> "opt", steps |-> steps]
Alt(branches) == [op |-> "alt", branches |-> branches]
Peek(steps) == [op |-> "peek", steps |-> steps]
\* line_ending: "\n" or "\r\n"
LineEnding == Alt(<< <<Tag(<<"\n">>)>>, <<Tag(<<"\r", "\n">>)>> >>)

Min(S) == CHOOSE x \in S : \A y \in S : x <= y

\* the first position at or after p whose character is not of class cls
SkipWhile(s, p, cls) ==
    LET stop == {q \in p..Len(s) : ~Matches(s[q], cls)}
    IN  IF stop = {} THEN Len(s) + 1 ELSE Min(stop)

\* whether the text at p starts with t
HasTag(s, p, t) == p + Len(t) - 1 <= Len(s) /\ SubSeq(s, p, p + Len(t) - 1) = t

\* a nom Err(Error(..)), and Ok((rest, out))
Fail == [ok |-> FALSE]
Parsed(rest, out) == [ok |-> TRUE, rest |-> rest, out |-> out]
\* Ok((rest, out)) for the text between p and q
Took(s, p, q) == Parsed(q, SubSeq(s, p, q - 1))

\* not_line_ending stops before "\n" or "\r\n" and fails on any other "\r"
RunNotLineEnding(s, p) ==
    LET q == SkipWhile(s, p, NotIn({"\r", "\n"}))
    IN  IF q <= Len(s) /\ s[q] = "\r" /\ ~HasTag(s, q, <<"\r", "\n">>)
        THEN Fail ELSE Took(s, p, q)

RECURSIVE Run(_, _, _)
RECURSIVE RunAlt(_, _, _)

RunStep(c, s, p) ==
    CASE c.op = "tag" ->
           IF HasTag(s, p, c.t) THEN Took(s, p, p + Len(c.t)) ELSE Fail
      [] c.op = "take_while" ->
           LET q == SkipWhile(s, p, c.cls)
           IN  IF q - p >= c.min THEN Took(s, p, q) ELSE Fail
      [] c.op = "take_while_m_n" ->
           LET q == SkipWhile(s, p, c.cls)
               e == IF q - p > c.n THEN p + c.n ELSE q
           IN  IF e - p >= c.m THEN Took(s, p, e) ELSE Fail
      [] c.op = "rest" -> Took(s, p, Len(s) + 1)
      [] c.op = "eof" -> IF p = Len(s) + 1 THEN Took(s, p, p) ELSE Fail
      [] c.op = "not_line_ending" -> RunNotLineEnding(s, p)
      [] c.op = "opt" ->
           LET r == Run(c.steps, s, p)
           IN  IF r.ok THEN Parsed(r.rest, Some(r.out)) ELSE Parsed(p, None)
      [] c.op = "alt" -> RunAlt(c.branches, s, p)
      [] c.op = "peek" ->
           LET r == Run(c.steps, s, p)
           IN  IF r.ok THEN Parsed(p, r.out) ELSE Fail

\* tuple(steps)
Run(steps, s, p) ==
    IF steps = <<>> THEN Parsed(p, <<>>)
    ELSE LET h == RunStep(Head(steps), s, p)
             t == Run(Tail(steps), s, h.rest)
         IN  IF h.ok /\ t.ok THEN Parsed(t.rest, <<h.out>> \o t.out) ELSE Fail

\* alt(branches): the first branch that matches
RunAlt(branches, s, p) ==
    IF branches = <<>> THEN Fail
    ELSE LET r == Run(Head(branches), s, p)
         IN  IF r.ok THEN r ELSE RunAlt(Tail(branches), s, p)

\* all_consuming(tuple(steps)) on the whole text
AllConsuming(steps, s) ==
    LET r == Run(steps, s, 1)
    IN  IF r.ok /\ r.rest = Len(s) + 1 THEN r ELSE Fail

(***************************************************************************)
(* u32::from_str_radix(src, 16) and u16::from_str_radix(src, 16): an       *)
(* optional "+", then one or more digits; the value must fit `bits` bits.  *)
(***************************************************************************)
RECURSIVE HexValue(_)
HexValue(d) ==
    IF d = <<>> THEN 0
    ELSE 16 * HexValue(SubSeq(d, 1, Len(d) - 1)) + HexDigitValue(d[Len(d)])

RECURSIVE StripZeros(_)
StripZeros(d) == IF d # <<>> /\ d[1] = "0" THEN StripZeros(Tail(d)) ELSE d

from_str_radix(src, bits) ==
    LET digits == IF src # <<>> /\ src[1] = "+" /\ Len(src) > 1
                  THEN Tail(src) ELSE src
    IN  IF src = <<>>
        THEN [ok |-> FALSE, msg |-> "cannot parse integer from empty string"]
        ELSE IF \E i \in DOMAIN digits : digits[i] \notin HexDigit
        THEN [ok |-> FALSE, msg |-> "invalid digit found in string"]
        ELSE IF 4 * Len(StripZeros(digits)) > bits
        THEN [ok |-> FALSE, msg |-> "number too large to fit in target type"]
        ELSE [ok |-> TRUE, val |-> HexValue(StripZeros(digits))]


(***************************************************************************)
(* instruction.rs: Operand, Address                                        *)
(***************************************************************************)
AddressMode == {"Accumulator", "Absolute", "AbsoluteX", "AbsoluteY",
                "Immediate", "Implied", "Indirect", "IndirectX", "IndirectY",
                "Relative", "ZeroPage", "ZeroPageX", "ZeroPageY"}

Address(address, address_mode) ==
    [tag |-> "Address", address |-> address, address_mode |-> address_mode]
Label(name) == [tag |-> "Label", name |-> name]
Instruction(opcode, operand) == [opcode |-> opcode, operand |-> operand]

(***************************************************************************)
(* parser.rs: parse_operand.  alt tries the seven operand syntaxes in      *)
(* order; the first whose grammar matches decides, also when its closure   *)
(* then yields Err.  What the grammar leaves unconsumed is in `rest`.      *)
(***************************************************************************)
\* the closures' conversion of the hex payload into an Address of `mode`
OperandAddress(operand, mode, line_num) ==
    LET r == from_str_radix(operand, 32)
    IN  IF r.ok THEN Ok(Address(r.val, mode))
        ELSE Err("ParseError", r.msg, <<>>, Some(line_num))

\* map(grammar, closure) where the closure converts output k into `mode`
MapAddress(r, k, mode, line_num) ==
    IF r.ok THEN Parsed(r.rest, OperandAddress(r.out[k], mode, line_num))
    ELSE Fail

ImmediateGrammar == <<Tag(<<"#", "$">>), Multispace0, IsNot({",", " ", ";", "\n"})>>

ImmediateOperand(s, line_num) ==
    MapAddress(Run(ImmediateGrammar, s, 1), 3, "Immediate", line_num)

DirectGrammar ==
    <<Tag(<<"$">>), Multispace0, IsNot({",", " ", ";", "\n"}),
      Opt(<<Multispace0, Tag(<<",">>), Multispace0, IsNot({" ", ";", "\n"})>>)>>

\* a variant of DirectMode that counts the digits after the leading zeros
DirectModeSignificant(operand, idx) ==
    IF idx # None /\ idx[1][4] = <<"X">>
    THEN (IF Len(StripZeros(operand)) > 2 THEN "AbsoluteX" ELSE "ZeroPageX")
    ELSE IF idx # None /\ idx[1][4] = <<"Y">>
    THEN (IF Len(StripZeros(operand)) > 2 THEN "AbsoluteY" ELSE "ZeroPageY")
    ELSE (IF Len(StripZeros(operand)) > 2 THEN "Absolute" ELSE "ZeroPage")

\* a variant of DirectMode that takes the index letter in either case
DirectModeEitherCase(operand, idx) ==
    IF idx # None /\ idx[1][4] \in {<<"X">>, <<"x">>}
    THEN (IF Len(operand) > 2 THEN "AbsoluteX" ELSE "ZeroPageX")
    ELSE IF idx # None /\ idx[1][4] \in {<<"Y">>, <<"y">>}
    THEN (IF Len(operand) > 2 THEN "AbsoluteY" ELSE "ZeroPageY")
    ELSE (IF Len(operand) > 2 THEN "Absolute" ELSE "ZeroPage")

\* the match on idx: the index tail and operand.len() give the mode
DirectMode(operand, idx) ==
    IF idx # None /\ idx[1][4] = <<"X">>
    THEN (IF Len(operand) > 2 THEN "AbsoluteX" ELSE "ZeroPageX")
    ELSE IF idx # None /\ idx[1][4] = <<"Y">>
    THEN (IF Len(operand) > 2 THEN "AbsoluteY" ELSE "ZeroPageY")
    ELSE (IF Len(operand) > 2 THEN "Absolute" ELSE "ZeroPage")

DirectClosure(r, line_num) ==
    IF r.ok
    THEN Parsed(r.rest, OperandAddress(r.out[3], DirectMode(r.out[3], r.out[4]),
                                       line_num))
    ELSE Fail

DirectOperand(s, line_num) == DirectClosure(Run(DirectGrammar, s, 1), line_num)

IndirectXGrammar ==
    <<Tag(<<"(">>), Multispace0, Tag(<<"$">>), Multispace0,
      TakeWhile1(NotIn({","} \cup Whitespace)), Multispace0, Tag(<<",">>),
      Multispace0, Alt(<< <<Tag(<<"X">>)>>, <<Tag(<<"x">>)>> >>), Multispace0,
      Tag(<<")">>)>>

IndirectXOperand(s, line_num) ==
    MapAddress(Run(IndirectXGrammar, s, 1), 5, "IndirectX", line_num)

IndirectYGrammar ==
    <<Tag(<<"(">>), Multispace0, Tag(<<"$">>), Multispace0,
      TakeWhileMN(1, 2, In(HexDigit)), Multispace0, Tag(<<")">>), Multispace0,
      Tag(<<",">>), Multispace0, Alt(<< <<Tag(<<"Y">>)>>, <<Tag(<<"y">>)>> >>)>>

IndirectYOperand(s, line_num) ==
    MapAddress(Run(IndirectYGrammar, s, 1), 5, "IndirectY", line_num)

IndirectGrammar ==
    <<Tag(<<"(">>), Multispace0, Tag(<<"$">>), Multispace0,
      TakeWhileMN(1, 4, In(HexDigit)), Multispace0, Tag(<<")">>)>>

IndirectOperand(s, line_num) ==
    MapAddress(Run(IndirectGrammar, s, 1), 5, "Indirect", line_num)

AccumulatorGrammar == <<Alt(<< <<Tag(<<"A">>)>>, <<Tag(<<"a">>)>> >>), Multispace0>>

AccumulatorClosure(r) ==
    IF r.ok THEN Parsed(r.rest, Ok(Address(0, "Accumulator"))) ELSE Fail

AccumulatorOperand(s) == AccumulatorClosure(Run(AccumulatorGrammar, s, 1))

\* recognize(pair(alt((alpha1, tag("_"))), take_while(alphanumeric or '_')))
LabelGrammar ==
    <<Alt(<< <<Alpha1>>, <<Tag(<<"_">>)>> >>),
      TakeWhile(In(Alphanumeric \cup {"_"}))>>

LabelClosure(r, s) ==
    IF r.ok THEN Parsed(r.rest, Ok(Label(SubSeq(s, 1, r.rest - 1)))) ELSE Fail

LabelOperand(s) == LabelClosure(Run(LabelGrammar, s, 1), s)

\* alt((..)): the result of the first alternative in `alts` that matched
RECURSIVE FirstOk(_)
FirstOk(alts) ==
    IF alts = <<>> THEN Fail
    ELSE IF Head(alts).ok THEN Head(alts)
    ELSE FirstOk(Tail(alts))

parse_operand(s, line_num) ==
    FirstOk(<<ImmediateOperand(s, line_num),
              DirectOperand(s, line_num),
              IndirectXOperand(s, line_num),
              IndirectYOperand(s, line_num),
              IndirectOperand(s, line_num),
              AccumulatorOperand(s),
              LabelOperand(s)>>)

(***************************************************************************)
(* instruction.rs: OPCODE_LOOKUP, the 151 (mnemonic, mode) -> byte entries *)
(***************************************************************************)
OPCODE_LOOKUP == {
    <<<<"A","D","C">>, "Immediate", \h69>>,
    <<<<"A","D","C">>, "ZeroPage", \h65>>,
    <<<<"A","D","C">>, "ZeroPageX", \h75>>,
    <<<<"A","D","C">>, "Absolute", \h6D>>,
    <<<<"A","D","C">>, "AbsoluteX", \h7D>>,
    <<<<"A","D","C">>, "AbsoluteY", \h79>>,
    <<<<"A","D","C">>, "IndirectX", \h61>>,
    <<<<"A","D","C">>, "IndirectY", \h71>>,
    <<<<"A","N","D">>, "Immediate", \h29>>,
    <<<<"A","N","D">>, "ZeroPage", \h25>>,
    <<<<"A","N","D">>, "ZeroPageX", \h35>>,
    <<<<"A","N","D">>, "Absolute", \h2D>>,
    <<<<"A","N","D">>, "AbsoluteX", \h3D>>,
    <<<<"A","N","D">>, "AbsoluteY", \h39>>,
    <<<<"A","N","D">>, "IndirectX", \h21>>,
    <<<<"A","N","D">>, "IndirectY", \h31>>,
    <<<<"A","S","L">>, "Accumulator", \h0A>>,
    <<<<"A","S","L">>, "ZeroPage", \h06>>,
    <<<<"A","S","L">>, "ZeroPageX", \h16>>,
    <<<<"A","S","L">>, "Absolute", \h0E>>,
    <<<<"A","S","L">>, "AbsoluteX", \h1E>>,
    <<<<"B","I","T">>, "ZeroPage", \h24>>,
    <<<<"B","I","T">>, "Absolute", \h2C>>,
    <<<<"B","R","K">>, "Implied", \h00>>,
    <<<<"C","M","P">>, "Immediate", \hC9>>,
    <<<<"C","M","P">>, "ZeroPage", \hC5>>,
    <<<<"C","M","P">>, "ZeroPageX", \hD5>>,
    <<<<"C","M","P">>, "Absolute", \hCD>>,
    <<<<"C","M","P">>, "AbsoluteX", \hDD>>,
    <<<<"C","M","P">>, "AbsoluteY", \hD9>>,
    <<<<"C","M","P">>, "IndirectX", \hC1>>,
    <<<<"C","M","P">>, "IndirectY", \hD1>>,
    <<<<"C","P","X">>, "Immediate", \hE0>>,
    <<<<"C","P","X">>, "ZeroPage", \hE4>>,
    <<<<"C","P","X">>, "Absolute", \hEC>>,
    <<<<"C","P","Y">>, "Immediate", \hC0>>,
    <<<<"C","P","Y">>, "ZeroPage", \hC4>>,
    <<<<"C","P","Y">>, "Absolute", \hCC>>,
    <<<<"D","E","C">>, "ZeroPage", \hC6>>,
    <<<<"D","E","C">>, "ZeroPageX", \hD6>>,
    <<<<"D","E","C">>, "Absolute", \hCE>>,
    <<<<"D","E","C">>, "AbsoluteX", \hDE>>,
    <<<<"E","O","R">>, "Immediate", \h49>>,
    <<<<"E","O","R">>, "ZeroPage", \h45>>,
    <<<<"E","O","R">>, "ZeroPageX", \h55>>,
    <<<<"E","O","R">>, "Absolute", \h4D>>,
    <<<<"E","O","R">>, "AbsoluteX", \h5D>>,
    <<<<"E","O","R">>, "AbsoluteY", \h59>>,
    <<<<"E","O","R">>, "IndirectX", \h41>>,
    <<<<"E","O","R">>, "IndirectY", \h51>>,
    <<<<"I","N","C">>, "ZeroPage", \hE6>>,
    <<<<"I","N","C">>, "ZeroPageX", \hF6>>,
    <<<<"I","N","C">>, "Absolute", \hEE>>,
    <<<<"I","N","C">>, "AbsoluteX", \hFE>>,
    <<<<"J","M","P">>, "Absolute", \h4C>>,
    <<<<"J","M","P">>, "Indirect", \h6C>>,
    <<<<"J","S","R">>, "Absolute", \h20>>,
    <<<<"L","D","A">>, "Immediate", \hA9>>,
    <<<<"L","D","A">>, "ZeroPage", \hA5>>,
    <<<<"L","D","A">>, "ZeroPageX", \hB5>>,
    <<<<"L","D","A">>, "Absolute", \hAD>>,
    <<<<"L","D","A">>, "AbsoluteX", \hBD>>,
    <<<<"L","D","A">>, "AbsoluteY", \hB9>>,
    <<<<"L","D","A">>, "IndirectX", \hA1>>,
    <<<<"L","D","A">>, "IndirectY", \hB1>>,
    <<<<"L","D","X">>, "Immediate", \hA2>>,
    <<<<"L","D","X">>, "ZeroPage", \hA6>>,
    <<<<"L","D","X">>, "ZeroPageY", \hB6>>,
    <<<<"L","D","X">>, "Absolute", \hAE>>,
    <<<<"L","D","X">>, "AbsoluteY", \hBE>>,
    <<<<"L","D","Y">>, "Immediate", \hA0>>,
    <<<<"L","D","Y">>, "ZeroPage", \hA4>>,
    <<<<"L","D","Y">>, "ZeroPageX", \hB4>>,
    <<<<"L","D","Y">>, "Absolute", \hAC>>,
    <<<<"L","D","Y">>, "AbsoluteX", \hBC>>,
    <<<<"L","S","R">>, "Accumulator", \h4A>>,
    <<<<"L","S","R">>, "ZeroPage", \h46>>,
    <<<<"L","S","R">>, "ZeroPageX", \h56>>,
    <<<<"L","S","R">>, "Absolute", \h4E>>,
    <<<<"L","S","R">>, "AbsoluteX", \h5E>>,
    <<<<"N","O","P">>, "Implied", \hEA>>,
    <<<<"O","R","A">>, "Immediate", \h09>>,
    <<<<"O","R","A">>, "ZeroPage", \h05>>,
    <<<<"O","R","A">>, "ZeroPageX", \h15>>,
    <<<<"O","R","A">>, "Absolute", \h0D>>,
    <<<<"O","R","A">>, "AbsoluteX", \h1D>>,
    <<<<"O","R","A">>, "AbsoluteY", \h19>>,
    <<<<"O","R","A">>, "IndirectX", \h01>>,
    <<<<"O","R","A">>, "IndirectY", \h11>>,
    <<<<"R","O","L">>, "Accumulator", \h2A>>,
    <<<<"R","O","L">>, "ZeroPage", \h26>>,
    <<<<"R","O","L">>, "ZeroPageX", \h36>>,
    <<<<"R","O","L">>, "Absolute", \h2E>>,
    <<<<"R","O","L">>, "AbsoluteX", \h3E>>,
    <<<<"R","O","R">>, "Accumulator", \h6A>>,
    <<<<"R","O","R">>, "ZeroPage", \h66>>,
    <<<<"R","O","R">>, "ZeroPageX", \h76>>,
    <<<<"R","O","R">>, "Absolute", \h6E>>,
    <<<<"R","O","R">>, "AbsoluteX", \h7E>>,
    <<<<"R","T","I">>, "Implied", \h40>>,
    <<<<"R","T","S">>, "Implied", \h60>>,
    <<<<"S","B","C">>, "Immediate", \hE9>>,
    <<<<"S","B","C">>, "ZeroPage", \hE5>>,
    <<<<"S","B","C">>, "ZeroPageX", \hF5>>,
    <<<<"S","B","C">>, "Absolute", \hED>>,
    <<<<"S","B","C">>, "AbsoluteX", \hFD>>,
    <<<<"S","B","C">>, "AbsoluteY", \hF9>>,
    <<<<"S","B","C">>, "IndirectX", \hE1>>,
    <<<<"S","B","C">>, "IndirectY", \hF1>>,
    <<<<"S","T","A">>, "ZeroPage", \h85>>,
    <<<<"S","T","A">>, "ZeroPageX", \h95>>,
    <<<<"S","T","A">>, "Absolute", \h8D>>,
    <<<<"S","T","A">>, "AbsoluteX", \h9D>>,
    <<<<"S","T","A">>, "AbsoluteY", \h99>>,
    <<<<"S","T","A">>, "IndirectX", \h81>>,
    <<<<"S","T","A">>, "IndirectY", \h91>>,
    <<<<"S","T","X">>, "ZeroPage", \h86>>,
    <<<<"S","T","X">>, "ZeroPageY", \h96>>,
    <<<<"S","T","X">>, "Absolute", \h8E>>,
    <<<<"S","T","Y">>, "ZeroPage", \h84>>,
    <<<<"S","T","Y">>, "ZeroPageX", \h94>>,
    <<<<"S","T","Y">>, "Absolute", \h8C>>,
    <<<<"B","P","L">>, "Relative", \h10>>,
    <<<<"B","M","I">>, "Relative", \h30>>,
    <<<<"B","V","C">>, "Relative", \h50>>,
    <<<<"B","V","S">>, "Relative", \h70>>,
    <<<<"B","C","C">>, "Relative", \h90>>,
    <<<<"B","C","S">>, "Relative", \hB0>>,
    <<<<"B","N","E">>, "Relative", \hD0>>,
    <<<<"B","E","Q">>, "Relative", \hF0>>,
    <<<<"C","L","C">>, "Implied", \h18>>,
    <<<<"S","E","C">>, "Implied", \h38>>,
    <<<<"C","L","I">>, "Implied", \h58>>,
    <<<<"S","E","I">>, "Implied", \h78>>,
    <<<<"C","L","V">>, "Implied", \hB8>>,
    <<<<"C","L","D">>, "Implied", \hD8>>,
    <<<<"S","E","D">>, "Implied", \hF8>>,
    <<<<"T","X","S">>, "Implied", \h9A>>,
    <<<<"T","S","X">>, "Implied", \hBA>>,
    <<<<"P","H","A">>, "Implied", \h48>>,
    <<<<"P","L","A">>, "Implied", \h68>>,
    <<<<"P","H","P">>, "Implied", \h08>>,
    <<<<"P","L","P">>, "Implied", \h28>>,
    <<<<"T","A","X">>, "Implied", \hAA>>,
    <<<<"T","X","A">>, "Implied", \h8A>>,
    <<<<"D","E","X">>, "Implied", \hCA>>,
    <<<<"I","N","X">>, "Implied", \hE8>>,
    <<<<"T","A","Y">>, "Implied", \hA8>>,
    <<<<"T","Y","A">>, "Implied", \h98>>,
    <<<<"D","E","Y">>, "Implied", \h88>>,
    <<<<"I","N","Y">>, "Implied", \hC8>>
}

\* OPCODE_LOOKUP.get(&(opcode, address_mode))
OpcodeGet(opcode, address_mode) ==
    LET hits == {e \in OPCODE_LOOKUP : e[1] = opcode /\ e[2] = address_mode}
    IN  IF hits = {} THEN None ELSE Some((CHOOSE e \in hits : TRUE)[3])

\* the modes whose operand takes two bytes, and those whose operand takes one
TwoByteModes == {"Absolute", "AbsoluteX", "AbsoluteY"}
OneByteModes == {"ZeroPage", "ZeroPageX", "ZeroPageY",
                 "Indirect", "IndirectY", "Immediate"}

\* u32::to_le_bytes()[k]
LeByte(v, k) == IF k = 0 THEN v % 256 ELSE (v \div 256) % 256

\* the mode Instruction::to_bytes looks the opcode up with
EffectiveMode(instr) ==
    IF instr.opcode = <<"J","S","R">> THEN "Absolute"
    ELSE IF instr.operand # None /\ instr.operand[1].tag = "Address"
    THEN instr.operand[1].address_mode
    ELSE "Implied"

\* a variant of OperandLimit that holds every operand to two bytes
OperandLimitTwoBytes(mode) == \hFFFF

\* the limit Instruction::to_bytes holds an operand of `mode` to
OperandLimit(mode) == IF mode \in TwoByteModes THEN \hFFFF ELSE \hFF

\* a variant of OperandBytes that pushes the high byte first
OperandBytesHiLo(address, mode) ==
    IF mode \in TwoByteModes
    THEN <<LeByte(address.address, 1), LeByte(address.address, 0)>>
    ELSE IF mode \in OneByteModes THEN <<LeByte(address.address, 0)>>
    ELSE <<>>

\* the operand bytes Instruction::to_bytes pushes for an in-range Address
OperandBytes(address, mode) ==
    IF mode \in TwoByteModes
    THEN <<LeByte(address.address, 0), LeByte(address.address, 1)>>
    ELSE IF mode \in OneByteModes THEN <<LeByte(address.address, 0)>>
    ELSE <<>>

\* Instruction::to_bytes
to_bytes(instr) ==
    LET address_mode == EffectiveMode(instr)
        opcode_byte == OpcodeGet(instr.opcode, address_mode)
    IN  IF opcode_byte = None
        THEN Err("OpCodeConversionError", "{}", <<instr.opcode>>, None)
        ELSE IF instr.operand # None /\ instr.operand[1].tag = "Address"
        THEN LET address == instr.operand[1]
             IN  IF /\ address_mode \in TwoByteModes \cup OneByteModes
                    /\ address.address > OperandLimit(address_mode)
                 THEN Err("OperandOutOfRange",
                          "Address Mode - {}, Address: {}",
                          <<address.address_mode, address.address>>, None)
                 ELSE Ok(opcode_byte \o OperandBytes(address, address_mode))
        ELSE Ok(opcode_byte)

\* a variant of SizeMode that sizes a Label operand as a one-byte operand
SizeModeLabelZeroPage(instr) ==
    IF instr.operand = None THEN "Implied"
    ELSE IF instr.operand[1].tag = "Address"
    THEN instr.operand[1].address_mode
    ELSE "ZeroPage"

\* the mode Instruction::size sizes the instruction by
SizeMode(instr) ==
    IF instr.operand = None THEN "Implied"
    ELSE IF instr.operand[1].tag = "Address"
    THEN instr.operand[1].address_mode
    ELSE "Absolute"

\* a variant of size that leaves the opcode byte out of the count
size_of_operand(instr) ==
    IF SizeMode(instr) \in TwoByteModes THEN 2
    ELSE IF SizeMode(instr) \in OneByteModes THEN 1
    ELSE 0

\* Instruction::size
size(instr) ==
    LET address_mode == SizeMode(instr)
    IN  IF address_mode \in TwoByteModes THEN 3
        ELSE IF address_mode \in OneByteModes THEN 2
        ELSE 1

(***************************************************************************)
(* validation.rs                                                           *)
(***************************************************************************)
\* the match of validate_instruction: uppercased mnemonic -> validator
Dispatch == {
    <<<<"A","D","C">>, "validate_adc">>,
    <<<<"A","N","D">>, "validate_and">>,
    <<<<"A","S","L">>, "validate_asl">>,
    <<<<"B","I","T">>, "validate_bit">>,
    <<<<"B","P","L">>, "validate_relative_operand">>,
    <<<<"B","M","I">>, "validate_relative_operand">>,
    <<<<"B","V","C">>, "validate_relative_operand">>,
    <<<<"B","V","S">>, "validate_relative_operand">>,
    <<<<"B","C","C">>, "validate_relative_operand">>,
    <<<<"B","C","S">>, "validate_relative_operand">>,
    <<<<"B","N","E">>, "validate_relative_operand">>,
    <<<<"B","E","Q">>, "validate_relative_operand">>,
    <<<<"B","R","K">>, "validate_brk">>,
    <<<<"C","M","P">>, "validate_cmp">>,
    <<<<"C","P","X">>, "validate_cpx">>,
    <<<<"C","P","Y">>, "validate_cpy">>,
    <<<<"D","E","C">>, "validate_dec">>,
    <<<<"E","O","R">>, "validate_eor">>,
    <<<<"C","L","C">>, "validate_no_operand">>,
    <<<<"S","E","C">>, "validate_no_operand">>,
    <<<<"C","L","I">>, "validate_no_operand">>,
    <<<<"S","E","I">>, "validate_no_operand">>,
    <<<<"C","L","V">>, "validate_no_operand">>,
    <<<<"C","L","D">>, "validate_no_operand">>,
    <<<<"S","E","D">>, "validate_no_operand">>,
    <<<<"I","N","C">>, "validate_inc">>,
    <<<<"J","M","P">>, "validate_jmp">>,
    <<<<"J","S","R">>, "validate_jsr">>,
    <<<<"L","D","A">>, "validate_lda">>,
    <<<<"L","D","X">>, "validate_ldx">>,
    <<<<"L","D","Y">>, "validate_ldy">>,
    <<<<"L","S","R">>, "validate_lsr">>,
    <<<<"N","O","P">>, "validate_no_operand">>,
    <<<<"O","R","A">>, "validate_ora">>,
    <<<<"T","A","X">>, "validate_no_operand">>,
    <<<<"T","X","A">>, "validate_no_operand">>,
    <<<<"D","E","X">>, "validate_no_operand">>,
    <<<<"I","N","X">>, "validate_no_operand">>,
    <<<<"T","A","Y">>, "validate_no_operand">>,
    <<<<"T","Y","A">>, "validate_no_operand">>,
    <<<<"D","E","Y">>, "validate_no_operand">>,
    <<<<"I","N","Y">>, "validate_no_operand">>,
    <<<<"R","O","L">>, "validate_rol">>,
    <<<<"R","O","R">>, "validate_ror">>,
    <<<<"R","T","I">>, "validate_no_operand">>,
    <<<<"R","T","S">>, "validate_no_operand">>,
    <<<<"S","B","C">>, "validate_sbc">>,
    <<<<"S","T","A">>, "validate_sta">>,
    <<<<"T","X","S">>, "validate_no_operand">>,
    <<<<"T","S","X">>, "validate_no_operand">>,
    <<<<"P","H","A">>, "validate_no_operand">>,
    <<<<"P","L","A">>, "validate_no_operand">>,
    <<<<"P","H","P">>, "validate_no_operand">>,
    <<<<"P","L","P">>, "validate_no_operand">>,
    <<<<"S","T","X">>, "validate_stx">>,
    <<<<"S","T","Y">>, "validate_sty">>
}

ValidatorOf(instr_name) ==
    LET hits == {d \in Dispatch : d[1] = instr_name}
    IN  IF hits = {} THEN None ELSE Some((CHOOSE d \in hits : TRUE)[2])

\* a variant of RefusesOperand in which validate_brk wants an operand
RefusesOperandButBrk(v) == v = "validate_no_operand"

\* validate_no_operand, validate_brk: any operand is refused
RefusesOperand(v) == v \in {"validate_no_operand", "validate_brk"}

\* the arms `AddressMode::M => Ok(())` of each validator
AcceptedModes(v) ==
    CASE v = "validate_relative_operand" -> {"Relative"}
      [] v \in {"validate_adc", "validate_and", "validate_cmp", "validate_eor",
                "validate_lda", "validate_ora", "validate_sbc"} ->
             {"Immediate", "ZeroPage", "ZeroPageX", "Absolute", "AbsoluteX",
              "AbsoluteY", "IndirectX", "IndirectY"}
      [] v \in {"validate_asl", "validate_lsr", "validate_rol",
                "validate_ror"} ->
             {"Accumulator", "ZeroPage", "ZeroPageX", "Absolute", "AbsoluteX"}
      [] v = "validate_bit" -> {"ZeroPage", "Absolute"}
      [] v \in {"validate_cpx", "validate_cpy"} ->
             {"Immediate", "ZeroPage", "Absolute"}
      [] v \in {"validate_dec", "validate_inc"} ->
             {"ZeroPage", "ZeroPageX", "Absolute", "AbsoluteX"}
      [] v = "validate_jmp" -> {"Absolute", "Indirect"}
      [] v = "validate_jsr" -> {"Absolute"}
      [] v = "validate_ldx" ->
             {"Immediate", "ZeroPage", "ZeroPageY", "Absolute", "AbsoluteY"}
      [] v = "validate_ldy" ->
             {"Immediate", "ZeroPage", "ZeroPageX", "Absolute", "AbsoluteX"}
      [] v = "validate_sta" ->
             {"ZeroPage", "ZeroPageX", "Absolute", "AbsoluteX", "AbsoluteY",
              "IndirectX", "IndirectY"}
      [] v = "validate_stx" -> {"ZeroPage", "ZeroPageY", "Absolute"}
      [] v = "validate_sty" -> {"ZeroPage", "ZeroPageX", "Absolute"}
      [] OTHER -> {}

\* a variant of AcceptsLabel in which validate_lda lets a label through too
AcceptsLabelOrLoad(v) ==
    v \in {"validate_relative_operand", "validate_jmp", "validate_jsr",
           "validate_lda"}

\* the validators whose arm for a non-Address operand is `_ => Ok(())`
AcceptsLabel(v) ==
    v \in {"validate_relative_operand", "validate_jmp", "validate_jsr"}

InvalidOpCode(msg, args, line_num) ==
    Err("InvalidOpCode", msg, args, Some(line_num))

\* the body shared by the validate_* functions, for validator v
validate_operand(v, instr, line_num) ==
    IF RefusesOperand(v)
    THEN IF instr.operand # None
         THEN InvalidOpCode("{} does not take an address.",
                            <<instr.opcode>>, line_num)
         ELSE Ok("()")
    ELSE IF instr.operand = None
    THEN InvalidOpCode("{} requires an address.", <<instr.opcode>>, line_num)
    ELSE LET operand == instr.operand[1]
         IN  IF operand.tag = "Address"
             THEN IF operand.address_mode \in AcceptedModes(v) THEN Ok("()")
                  ELSE InvalidOpCode("{} does not support {} addressing.",
                                     <<instr.opcode, operand.address_mode>>,
                                     line_num)
             ELSE IF AcceptsLabel(v) THEN Ok("()")
             ELSE InvalidOpCode("{} does not support labels",
                                <<instr.opcode>>, line_num)

validate_instruction(instr, line_num) ==
    LET v == ValidatorOf(to_ascii_uppercase(instr.opcode))
    IN  IF v = None
        THEN InvalidOpCode("{} is invalid.", <<instr.opcode>>, line_num)
        ELSE validate_operand(v[1], instr, line_num)


(***************************************************************************)
(* parser.rs: Line and the five line grammars                              *)
(***************************************************************************)
EmptyLine == [tag |-> "EmptyLine"]
Comment == [tag |-> "Comment"]
LineLabel(name) == [tag |-> "Label", name |-> name]
LineInstruction(instr) == [tag |-> "Instruction", instr |-> instr]
\* Line::Directive(Directive::Org(address))
LineDirectiveOrg(address) ==
    [tag |-> "Directive", directive |-> "Org", address |-> address]

\* str::trim_start and str::trim
RECURSIVE trim_start(_)
trim_start(s) ==
    IF s # <<>> /\ s[1] \in Whitespace THEN trim_start(Tail(s)) ELSE s
RECURSIVE trim_end(_)
trim_end(s) ==
    IF s # <<>> /\ s[Len(s)] \in Whitespace
    THEN trim_end(SubSeq(s, 1, Len(s) - 1)) ELSE s
trim(s) == trim_end(trim_start(s))

\* take_while1(|c| c.is_alphanumeric() && c != ':')
parse_operation == TakeWhile1(In(Alphanumeric \ {":"}))
\* take_while(|c| c != ';' && c != '\n' && c != '\r')
parse_until_comment_or_line_ending == TakeWhile(NotIn({";", "\n", "\r"}))

InstructionGrammar ==
    <<Multispace0,
      parse_operation,
      Peek(<<Alt(<< <<Multispace0>>, <<LineEnding>>, <<Eof>> >>)>>),
      Opt(<<Multispace1, parse_until_comment_or_line_ending>>),
      Multispace0,
      Opt(<<Multispace0, Tag(<<";">>), Rest>>)>>

\* the operand text of parse_instruction turned into Option<Operand>
OperandResult(s, r) ==
    IF HasTag(trim_start(s), 1, <<";">>) \/ trim(s) = <<>> THEN Ok(None)
    ELSE IF ~r.ok THEN Err("IOError", "Parsing Error: {}", <<s>>, None)
    ELSE IF r.out.ok THEN Ok(Some(r.out.val))
    ELSE r.out

\* the body of parse_instruction after its grammar matched with the
\* outputs opcode, operand and comment
InstructionClosure(opcode, operand, comment, line_num) ==
    IF (comment # None /\ operand = None) \/ operand = None
    THEN Ok(Instruction(opcode, None))
    ELSE IF OperandResult(operand[1][2],
                          parse_operand(operand[1][2], line_num)).ok
    THEN Ok(Instruction(opcode,
                        OperandResult(operand[1][2],
                                      parse_operand(operand[1][2], line_num)).val))
    ELSE OperandResult(operand[1][2], parse_operand(operand[1][2], line_num))

InstructionMap(r, line_num) ==
    IF r.ok
    THEN Parsed(r.rest, InstructionClosure(r.out[2], r.out[4], r.out[6], line_num))
    ELSE Fail

parse_instruction(input, line_num) ==
    InstructionMap(AllConsuming(InstructionGrammar, input), line_num)

parse_comment_line(input) ==
    Run(<<Multispace0, Tag(<<";">>), NotLineEnding, Opt(<<LineEnding>>)>>,
        input, 1)

parse_label(input) ==
    AllConsuming(<<Multispace0, TakeWhile1(In(Alphanumeric \cup {"_"})),
                   Tag(<<":">>), Multispace0>>, input)

\* terminated(multispace0, alt((tag("\n"), eof))), then Ok(("", ()))
EmptyLineGrammar == <<Multispace0, Alt(<< <<Tag(<<"\n">>)>>, <<Eof>> >>)>>

parse_empty_line(input) ==
    IF Run(EmptyLineGrammar, input, 1).ok THEN Parsed(Len(input) + 1, "()")
    ELSE Fail

\* a variant of the match of parse_directive that compares the name as written
DirectiveOfAsWritten(directive, argument) ==
    IF directive = <<"o", "r", "g">>
    THEN (IF from_str_radix(argument, 16).ok
          THEN Ok(LineDirectiveOrg(from_str_radix(argument, 16).val))
          ELSE Err("ParseErrorNom", "Failed to parse to u16", <<>>, None))
    ELSE Err("InvalidDirective", "{}", <<directive>>, None)

\* the match of parse_directive: the name and its argument to a Directive
DirectiveOf(directive, argument) ==
    IF to_lowercase(directive) = <<"o", "r", "g">>
    THEN (IF from_str_radix(argument, 16).ok
          THEN Ok(LineDirectiveOrg(from_str_radix(argument, 16).val))
          ELSE Err("ParseErrorNom", "Failed to parse to u16", <<>>, None))
    ELSE Err("InvalidDirective", "{}", <<directive>>, None)

parse_directive(input) ==
    AllConsuming(<<Multispace0, Tag(<<".">>), Alpha1, Multispace1, Tag(<<"$">>),
                   TakeWhile1(In(HexDigit)), Multispace0>>, input)

\* the closure parse_line maps over parse_instruction: validation
ValidatedInstruction(instr_res, line_num) ==
    IF ~instr_res.ok THEN instr_res
    ELSE IF validate_instruction(instr_res.val, line_num).ok
    THEN Ok(LineInstruction(instr_res.val))
    ELSE validate_instruction(instr_res.val, line_num)

\* the five alternatives of parse_line, each mapped to Result<Line, _>
LineAlternatives(input, line_num, instr, comment, label, empty, directive) ==
    <<IF instr.ok THEN Parsed(instr.rest, ValidatedInstruction(instr.out, line_num))
      ELSE Fail,
      IF comment.ok THEN Parsed(comment.rest, Ok(Comment)) ELSE Fail,
      IF label.ok THEN Parsed(label.rest, Ok(LineLabel(label.out[2]))) ELSE Fail,
      IF empty.ok THEN Parsed(empty.rest, Ok(EmptyLine)) ELSE Fail,
      IF directive.ok
      THEN Parsed(directive.rest, DirectiveOf(directive.out[3], directive.out[6]))
      ELSE Fail>>

\* a variant of the match on parse_result that reports the failure without
\* the line
LineResultUntagged(r, line_num) ==
    IF r.ok THEN r.out
    ELSE Err("ParseErrorNom", "Unexpected token", <<>>, None)

\* the match on parse_result
LineResult(r, line_num) ==
    IF r.ok THEN r.out
    ELSE Err("ParseError", "Unexpected token", <<>>, Some(line_num))

\* terminated(alt((..)), opt(line_ending)): the trailing opt cannot fail and
\* what it leaves is dropped
parse_line(input, line_num) ==
    LineResult(FirstOk(LineAlternatives(input, line_num,
                                        parse_instruction(input, line_num),
                                        parse_comment_line(input),
                                        parse_label(input),
                                        parse_empty_line(input),
                                        parse_directive(input))),
               line_num)

(***************************************************************************)
(* process.rs: proccess_instructions.  `lines` is a sequence of pairs      *)
(* <<Line, line number>>; the label map is a function from names to        *)
(* addresses.                                                              *)
(***************************************************************************)
\* a variant of Insert that keeps the value of a key it already holds
InsertIfAbsent(m, k, v) ==
    [x \in DOMAIN m \cup {k} |-> IF x \in DOMAIN m THEN m[x] ELSE v]

\* HashMap::insert
Insert(m, k, v) == [x \in DOMAIN m \cup {k} |-> IF x = k THEN v ELSE m[x]]

\* a variant of the first loop that keeps the first Org directive it meets
RECURSIVE OriginScanFirst(_, _, _)
OriginScanFirst(ls, i, sp) ==
    IF i > Len(ls) THEN sp
    ELSE IF ls[i][1].tag = "Directive" THEN ls[i][1].address
    ELSE OriginScanFirst(ls, i + 1, sp)

\* the first loop: the address of the last Org directive, start_pos else
RECURSIVE OriginScan(_, _, _)
OriginScan(ls, i, sp) ==
    IF i > Len(ls) THEN sp
    ELSE OriginScan(ls, i + 1,
                    IF ls[i][1].tag = "Directive" THEN ls[i][1].address
                    ELSE sp)

\* the first pass: a Label records the pointer, an Instruction advances it
RECURSIVE FirstPass(_, _, _, _)
FirstPass(ls, i, pointer, label_map) ==
    IF i > Len(ls) THEN label_map
    ELSE IF ls[i][1].tag = "Label"
    THEN FirstPass(ls, i + 1, pointer, Insert(label_map, ls[i][1].name, pointer))
    ELSE IF ls[i][1].tag = "Instruction"
    THEN FirstPass(ls, i + 1, pointer + size(ls[i][1].instr), label_map)
    ELSE FirstPass(ls, i + 1, pointer, label_map)

\* a variant of Resolved that gives the operand of a branch the mode Relative
ResolvedByMnemonic(instr, label_map) ==
    IF instr.operand # None /\ instr.operand[1].tag = "Label"
    THEN Instruction(instr.opcode,
                     Some(Address(label_map[instr.operand[1].name],
                                  IF instr.opcode = <<"B","N","E">>
                                  THEN "Relative" ELSE "Absolute")))
    ELSE instr

\* the operand the second pass leaves in an instruction whose label is known
Resolved(instr, label_map) ==
    IF instr.operand # None /\ instr.operand[1].tag = "Label"
    THEN Instruction(instr.opcode,
                     Some(Address(label_map[instr.operand[1].name], "Absolute")))
    ELSE instr

\* a variant of the second pass that keeps an unknown label operand as it is
\* and goes on
RECURSIVE SecondPassKeeping(_, _, _, _)
SecondPassKeeping(ls, i, label_map, instrs) ==
    IF i > Len(ls) THEN Ok(instrs)
    ELSE IF ls[i][1].tag # "Instruction"
    THEN SecondPassKeeping(ls, i + 1, label_map, instrs)
    ELSE IF /\ ls[i][1].instr.operand # None
            /\ ls[i][1].instr.operand[1].tag = "Label"
            /\ ls[i][1].instr.operand[1].name \notin DOMAIN label_map
    THEN SecondPassKeeping(ls, i + 1, label_map, Append(instrs, ls[i][1].instr))
    ELSE SecondPassKeeping(ls, i + 1, label_map,
                           Append(instrs, Resolved(ls[i][1].instr, label_map)))

\* a variant of the second pass that puts each instruction before the
\* earlier ones
RECURSIVE SecondPassNewestFirst(_, _, _, _)
SecondPassNewestFirst(ls, i, label_map, instrs) ==
    IF i > Len(ls) THEN Ok(instrs)
    ELSE IF ls[i][1].tag # "Instruction"
    THEN SecondPassNewestFirst(ls, i + 1, label_map, instrs)
    ELSE IF /\ ls[i][1].instr.operand # None
            /\ ls[i][1].instr.operand[1].tag = "Label"
            /\ ls[i][1].instr.operand[1].name \notin DOMAIN label_map
    THEN Err("InvalidLabel", "Did not find {}",
             <<ls[i][1].instr.operand[1].name>>, Some(ls[i][2]))
    ELSE SecondPassNewestFirst(ls, i + 1, label_map,
                               <<Resolved(ls[i][1].instr, label_map)>> \o instrs)

\* the second pass: rewrites label operands, stops at the first unknown one
RECURSIVE SecondPass(_, _, _, _)
SecondPass(ls, i, label_map, instrs) ==
    IF i > Len(ls) THEN Ok(instrs)
    ELSE IF ls[i][1].tag # "Instruction"
    THEN SecondPass(ls, i + 1, label_map, instrs)
    ELSE LET instr == ls[i][1].instr
         IN  IF /\ instr.operand # None
                /\ instr.operand[1].tag = "Label"
                /\ instr.operand[1].name \notin DOMAIN label_map
             THEN Err("InvalidLabel", "Did not find {}",
                      <<instr.operand[1].name>>, Some(ls[i][2]))
             ELSE SecondPass(ls, i + 1, label_map,
                             Append(instrs, Resolved(instr, label_map)))

proccess_instructions(ls) ==
    LET sp == OriginScan(ls, 1, 0)
        label_map == FirstPass(ls, 1, sp, <<>>)
        second == SecondPass(ls, 1, label_map, <<>>)
    IN  IF second.ok
        THEN Ok([instructions |-> second.val, start_pos |-> sp])
        ELSE second

(***************************************************************************)
(* main.rs: add_padding                                                    *)
(***************************************************************************)
\* the offset of the reset vector: the largest program add_padding accepts
PrgSize == \hFFC

\* a variant of Zeros that fills with the byte of erased memory
ErasedBytes(n) == [i \in 1..n |-> 255]

\* vec![0; n]
Zeros(n) == [i \in 1..n |-> 0]

\* a variant of ResetVector that pushes hi before lo
ResetVectorHiLo(sp) == <<sp \div 256, sp % 256>>

\* the bytes pushed after the padding: the reset vector, lo then hi
ResetVector(sp) == <<sp % 256, sp \div 256>>

\* the interrupt vectors add_padding appends after the reset vector
InterruptVectors == Zeros(4)

\* a variant of add_padding that also refuses a program of PrgSize bytes
add_padding_refusing_full(bs, sp) ==
    IF Len(bs) >= PrgSize THEN Err("ProgramTooLarge", "", <<>>, None)
    ELSE Ok(bs \o Zeros(PrgSize - Len(bs)) \o <<sp % 256, sp \div 256>>
               \o Zeros(4))

add_padding(bs, sp) ==
    IF Len(bs) > PrgSize THEN Err("ProgramTooLarge", "", <<>>, None)
    ELSE Ok(bs \o Zeros(PrgSize - Len(bs)) \o ResetVector(sp)
               \o InterruptVectors)


(***************************************************************************)
(* The programs the run is checked on                                      *)
(***************************************************************************)
\* bounds of the model
MaxLines == 3
MaxDigits == 5
MaxIdLen == 3
MaxLineNum == 2

\* all sequences over S of length lo..hi
SeqsOf(S, lo, hi) == UNION {[1..k -> S] : k \in lo..hi}

OrgLine == <<".","O","R","G"," ","$","8","0","0","0">>
LdaLine == <<"L","D","A"," ","#","$","0","5">>
StaLine == <<"S","T","A"," ","$","0","0">>
BrkLine == <<"B","R","K">>
LoopLabelLine == <<"l","o","o","p",":">>
JmpLoopLine == <<"J","M","P"," ","l","o","o","p">>
BneLoopLine == <<"B","N","E"," ","l","o","o","p">>
JmpNowhereLine == <<"J","M","P"," ","n","o","w","h","e","r","e">>
JsrMissingLine == <<"J","S","R"," ","m","i","s","s","i","n","g">>
CommentLine == <<";"," ","c","o","m","m","e","n","t">>
BadLine == <<"=","=","=","=","=","=">>
LdaIndirectXLine == <<"L","D","A"," ","(","$","4","4",",","X",")">>
JsrLoopLine == <<"J","S","R"," ","l","o","o","p">>

\* the lines general programs are built from
LinePool == {OrgLine, LdaLine, StaLine, BrkLine, LoopLabelLine, JmpLoopLine,
             BneLoopLine, JmpNowhereLine, JsrMissingLine, CommentLine,
             BadLine, LdaIndirectXLine, JsrLoopLine}

\* the example of the specification: .ORG $8000 / LDA #$05 / STA $00 / BRK
ExampleProgram == <<OrgLine, LdaLine, StaLine, BrkLine>>

\* the eight relative branches, as written in a source line
BranchMnemonics == {<<"B","P","L">>, <<"B","M","I">>, <<"B","V","C">>,
                    <<"B","V","S">>, <<"B","C","C">>, <<"B","C","S">>,
                    <<"B","N","E">>, <<"B","E","Q">>}
\* label names: "loop", "_l1", "again", "Add"
BranchLabels == {<<"l","o","o","p">>, <<"_","l","1">>,
                 <<"a","g","a","i","n">>, <<"A","d","d">>}
\* direct operands: "$10", "$C000"
BranchAddresses == {<<"$","1","0">>, <<"$","C","0","0","0">>}

\* a branch line and the line defining its label, in both orders, and a
\* branch line with a direct address
BranchPrograms ==
    {<<l \o <<":">>, m \o <<" ">> \o l>> : m \in BranchMnemonics, l \in BranchLabels}
    \cup {<<m \o <<" ">> \o l, l \o <<":">>>> : m \in BranchMnemonics, l \in BranchLabels}
    \cup {<<m \o <<" ">> \o a>> : m \in BranchMnemonics, a \in BranchAddresses}

Programs == SeqsOf(LinePool, 0, MaxLines) \cup {ExampleProgram} \cup BranchPrograms

(***************************************************************************)
(* main.rs: the run.  parse_file parses line by line, then the command     *)
(* (assemble or nes) resolves, encodes instruction by instruction, pads    *)
(* (nes) and writes the output file; the first error ends the process.     *)
(***************************************************************************)
Init ==
    /\ pc = "parse_file"
    /\ cmd \in {"Assemble", "NES"}
    /\ str_lines \in Programs
    /\ lines = <<>>
    /\ instructions = <<>>
    /\ start_pos = 0
    /\ iter = 1
    /\ bytes = <<>>
    /\ padded_bytes = <<>>
    /\ output = <<>>
    /\ error = None
    /\ arg = None
    /\ ret = None
    /\ cpu = None

\* a variant of Exit that reports the error and lets the run go on
ExitGoingOn(e) == pc' = pc /\ error' = Some(e)

\* eprintln!(..); std::process::exit(1)
Exit(e) == pc' = "exit" /\ error' = Some(e)

\* one iteration of the loop of parse_file
ParseLine ==
    /\ pc = "parse_file"
    /\ iter <= Len(str_lines)
    /\ LET r == parse_line(str_lines[iter], iter)
       IN  IF r.ok
           THEN /\ lines' = Append(lines, <<r.val, iter>>)
                /\ iter' = iter + 1
                /\ UNCHANGED <<pc, error>>
           ELSE /\ Exit(r)
                /\ UNCHANGED <<lines, iter>>
    /\ UNCHANGED <<cpu, arg, ret, cmd, str_lines, instructions, start_pos, bytes,
                   padded_bytes, output>>

\* parse_file returns Ok(lines); main dispatches on the command
ParseFileReturn ==
    /\ pc = "parse_file"
    /\ iter > Len(str_lines)
    /\ pc' = "proccess_instructions"
    /\ UNCHANGED <<cpu, arg, ret, cmd, str_lines, lines, instructions, start_pos,
                   iter, bytes, padded_bytes, output, error>>

\* assemble / nes: the call of proccess_instructions
Resolve ==
    /\ pc = "proccess_instructions"
    /\ LET r == proccess_instructions(lines)
       IN  IF r.ok
           THEN /\ instructions' = r.val.instructions
                /\ start_pos' = r.val.start_pos
                /\ iter' = 1
                /\ pc' = "to_bytes"
                /\ UNCHANGED error
           ELSE /\ Exit(r)
                /\ UNCHANGED <<instructions, start_pos, iter>>
    /\ UNCHANGED <<cpu, arg, ret, cmd, str_lines, lines, bytes, padded_bytes,
                   output>>

\* one iteration of the loop of to_bytes
EncodeInstruction ==
    /\ pc = "to_bytes"
    /\ iter <= Len(instructions)
    /\ LET r == to_bytes(instructions[iter])
       IN  IF r.ok
           THEN /\ bytes' = bytes \o r.val
                /\ iter' = iter + 1
                /\ UNCHANGED <<pc, error>>
           ELSE /\ Exit(r)
                /\ UNCHANGED <<bytes, iter>>
    /\ UNCHANGED <<cpu, arg, ret, cmd, str_lines, lines, instructions, start_pos,
                   padded_bytes, output>>

\* to_bytes returns Ok(bytes)
ToBytesReturn ==
    /\ pc = "to_bytes"
    /\ iter > Len(instructions)
    /\ pc' = IF cmd = "NES" THEN "add_padding" ELSE "write_bytes_to_file"
    /\ UNCHANGED <<cpu, arg, ret, cmd, str_lines, lines, instructions, start_pos,
                   iter, bytes, padded_bytes, output, error>>

\* nes: add_padding(bytes, start_pos as u16)
AddPadding ==
    /\ pc = "add_padding"
    /\ LET r == add_padding(bytes, start_pos % 65536)
       IN  IF r.ok
           THEN /\ padded_bytes' = r.val
                /\ pc' = "write_bytes_to_file"
                /\ UNCHANGED error
           ELSE /\ Exit(r)
                /\ UNCHANGED padded_bytes
    /\ UNCHANGED <<cpu, arg, ret, cmd, str_lines, lines, instructions, start_pos,
                   iter, bytes, output>>

\* what the command hands to write_bytes_to_file
Written == IF cmd = "NES" THEN padded_bytes ELSE bytes

\* a variant of WriteFile that writes the file a second time
WriteFileTwice ==
    /\ pc = "write_bytes_to_file"
    /\ output' = Append(Append(output, Written), Written)
    /\ pc' = "done"
    /\ UNCHANGED <<cpu, arg, ret, cmd, str_lines, lines, instructions, start_pos,
                   iter, bytes, padded_bytes, error>>

\* write_bytes_to_file succeeds
WriteFile ==
    /\ pc = "write_bytes_to_file"
    /\ output' = Append(output, Written)
    /\ pc' = "done"
    /\ UNCHANGED <<cpu, arg, ret, cmd, str_lines, lines, instructions, start_pos,
                   iter, bytes, padded_bytes, error>>

\* write_bytes_to_file fails: std::fs::write returned an error
WriteFileError ==
    /\ pc = "write_bytes_to_file"
    /\ Exit(Err("IOError", "{}", <<>>, None))
    /\ UNCHANGED <<cpu, arg, ret, cmd, str_lines, lines, instructions, start_pos,
                   iter, bytes, padded_bytes, output>>

Next ==
    \/ ParseLine
    \/ ParseFileReturn
    \/ Resolve
    \/ EncodeInstruction
    \/ ToBytesReturn
    \/ AddPadding
    \/ WriteFile
    \/ WriteFileError

Spec == Init /\ [][Next]_vars

(***************************************************************************)
(* The pure functions, each applied to inputs drawn from bounded sets.     *)
(* arg holds the arguments of the call, ret what it returned.              *)
(***************************************************************************)
\* the state of the run while a single function is exercised
Idle ==
    /\ cmd = "Assemble"
    /\ str_lines = <<>>
    /\ lines = <<>>
    /\ instructions = <<>>
    /\ start_pos = 0
    /\ iter = 1
    /\ bytes = <<>>
    /\ padded_bytes = <<>>
    /\ output = <<>>
    /\ error = None

NoCpu == cpu = None

\* ---- parse_operand -------------------------------------------------------
HexPool == {"0", "4", "F"}
\* nine digits: one past what u32 holds, and one that holds by leading zeros
LongPayloads == {<<"1","0","0","0","0","0","0","0","0">>,
                 <<"0","0","0","0","0","0","0","4","4">>}
ShortPayloads == SeqsOf(HexPool, 1, MaxDigits)
HexPayloads == ShortPayloads \cup LongPayloads
IndexSuffixes == {<<>>, <<",","X">>, <<",","Y">>, <<",","x">>, <<",","y">>,
                  <<","," ","X">>, <<",","Z">>, <<",","X","Y">>, <<",">>}
DirectTexts == {<<"$">> \o p \o s : p \in HexPayloads, s \in IndexSuffixes}
ImmediateTexts == {<<"#","$">> \o p : p \in HexPayloads}
IndirectTexts ==
    {<<"(","$">> \o p \o <<",","X",")">> : p \in ShortPayloads}
    \cup {<<"(","$">> \o p \o <<")",",","Y">> : p \in ShortPayloads}
    \cup {<<"(","$">> \o p \o <<")">> : p \in ShortPayloads}
IdentChars == {"A", "a", "b", "_", "1"}
Identifiers == {w \in SeqsOf(IdentChars, 1, MaxIdLen) : w[1] # "1"}
IdentifierTexts == Identifiers \cup {w \o <<" ">> : w \in Identifiers}
OperandTexts ==
    DirectTexts \cup ImmediateTexts \cup IndirectTexts \cup IdentifierTexts

InitOperand ==
    /\ pc = "parse_operand"
    /\ arg \in [input : OperandTexts, line_num : 1..MaxLineNum]
    /\ ret = None
    /\ Idle
    /\ NoCpu

CallParseOperand ==
    /\ pc = "parse_operand"
    /\ ret' = Some(parse_operand(arg.input, arg.line_num))
    /\ pc' = "return"
    /\ UNCHANGED <<cpu, arg, cmd, str_lines, lines, instructions, start_pos, iter,
                   bytes, padded_bytes, output, error>>

NextOperand == CallParseOperand

SpecOperand == InitOperand /\ [][NextOperand]_vars

\* ---- validate_instruction, Instruction::size, Instruction::to_bytes ------
Mnemonics == {d[1] : d \in Dispatch}
\* opcodes as a source may spell them, besides the upper-case mnemonics
OtherOpcodes == {<<"j","s","r">>, <<"l","d","a">>, <<"X","Y","Z">>}
OperandValues == {0, \h44, \hFF, \h100, \hFFFF, \h10000}
LabelNames == {<<"l","o","o","p">>, <<"A">>, <<"n","o","w","h","e","r","e">>}
Operands ==
    {None}
    \cup {Some(Address(v, m)) : v \in OperandValues, m \in AddressMode}
    \cup {Some(Label(n)) : n \in LabelNames}
Instructions ==
    {Instruction(o, x) : o \in Mnemonics \cup OtherOpcodes, x \in Operands}

InitInstr ==
    /\ pc = "validate_instruction"
    /\ arg \in [instr : Instructions, line_num : 1..MaxLineNum]
    /\ ret = <<>>
    /\ Idle
    /\ NoCpu

CallValidate ==
    /\ pc = "validate_instruction"
    /\ ret' = Append(ret, validate_instruction(arg.instr, arg.line_num))
    /\ pc' = "size"
    /\ UNCHANGED <<cpu, arg, cmd, str_lines, lines, instructions, start_pos, iter,
                   bytes, padded_bytes, output, error>>

CallSize ==
    /\ pc = "size"
    /\ ret' = Append(ret, size(arg.instr))
    /\ pc' = "to_bytes"
    /\ UNCHANGED <<cpu, arg, cmd, str_lines, lines, instructions, start_pos, iter,
                   bytes, padded_bytes, output, error>>

CallToBytes ==
    /\ pc = "to_bytes"
    /\ ret' = Append(ret, to_bytes(arg.instr))
    /\ pc' = "return"
    /\ UNCHANGED <<cpu, arg, cmd, str_lines, lines, instructions, start_pos, iter,
                   bytes, padded_bytes, output, error>>

NextInstr ==
    \/ CallValidate
    \/ CallSize
    \/ CallToBytes

SpecInstr == InitInstr /\ [][NextInstr]_vars

\* ---- add_padding ---------------------------------------------------------
MaxPad == 3
PadLengths == (0..MaxPad) \cup ((PrgSize - MaxPad)..(PrgSize + MaxPad))
FillBytes == {\hEA, \hFF}
Origins == {0, \h1234, \h8000, \hFFFF}

InitPad ==
    /\ pc = "add_padding"
    /\ \E n \in PadLengths, f \in FillBytes, o \in Origins :
          arg = [bytes |-> [i \in 1..n |-> f], start_pos |-> o]
    /\ ret = None
    /\ Idle
    /\ NoCpu

CallAddPadding ==
    /\ pc = "add_padding"
    /\ ret' = Some(add_padding(arg.bytes, arg.start_pos))
    /\ pc' = "return"
    /\ UNCHANGED <<cpu, arg, cmd, str_lines, lines, instructions, start_pos, iter,
                   bytes, padded_bytes, output, error>>

NextPad == CallAddPadding

SpecPad == InitPad /\ [][NextPad]_vars

(***************************************************************************)
(* parse_line applied to single lines                                      *)
(***************************************************************************)
\* the first word of an instruction line
OpcodeWords ==
    {<<"L","D","A">>, <<"J","M","P">>, <<"B","N","E">>, <<"N","O","P">>,
     <<"l","d","a">>, <<"X","Y","Z">>}
\* operand texts: well formed, with malformed hex, and of no operand syntax
OperandWords ==
    {<<"$","4","4">>, <<"$","4","4","0","0">>, <<"#","$","0","5">>,
     <<"#","$","z","z">>, <<"$","z","z">>, <<"#">>, <<"(">>,
     <<"l","o","o","p">>, <<"A">>, <<"(","$","4","4",",","X",")">>,
     <<"(","$","4","4",")",",","Y">>, <<"(","$","4","4","0","0",")">>,
     <<"(","$","z","z",",","X",")">>}
\* what follows the operand or the mnemonic on the line
LineTails ==
    {<<>>, <<" ">>, <<" ","j","u","n","k">>, <<" ",";"," ","c">>,
     <<";","c">>, <<"\n">>}
\* the text before the colon of a label line
LabelWords ==
    {<<"l","o","o","p">>, <<"1","2","3">>, <<"_","x">>, <<"1","a">>,
     <<"9">>, <<"a","-","b">>}
\* what follows the colon
LabelTails ==
    {<<>>, <<" ">>, <<"x">>, <<" ",";"," ","c">>}
\* directive names
DirectiveNames ==
    {<<"O","R","G">>, <<"o","r","g">>, <<"O","r","g">>, <<"o","R","g">>,
     <<"f","o","o">>, <<"B","Y","T","E">>, <<"O","R","G","A">>}
\* directive arguments, up to and above 0xFFFF
DirectiveArguments ==
    {<<"0">>, <<"8","0","0","0">>, <<"F","F","F","F">>,
     <<"0","0","F","F","F","F">>, <<"1","0","0","0","0">>,
     <<"8","0","0","0","0">>, <<"F","F","F","F","F","F","F","F","F">>,
     <<"z","z">>}
\* what follows the argument
DirectiveTails ==
    {<<>>, <<" ">>, <<" ",";"," ","c">>}
\* blank lines, comments, and lines of no grammar
OtherLines ==
    {<<>>, <<" ">>, <<" "," ">>, <<"\n">>, <<";"," ","c">>, <<";">>,
     <<" "," ",";"," ","c">>, <<"=","=","=","=","=","=">>, <<"@">>,
     <<".","O","R","G"," ","8","0","0","0">>, <<".","O","R","G">>,
     <<"$","4","4">>, <<";","c","\r","x">>,
     <<"L","D","A",":"," ","$","4","4">>}

InstructionLines ==
    {m \o <<" ">> \o o \o t : m \in OpcodeWords, o \in OperandWords,
                               t \in LineTails}
    \cup {m \o t : m \in OpcodeWords, t \in LineTails}
LabelLines ==
    {s \o w \o <<":">> \o t : s \in {<<>>, <<" ">>}, w \in LabelWords,
                               t \in LabelTails}
DirectiveLines ==
    {<<".">> \o n \o <<" ", "$">> \o a \o t :
        n \in DirectiveNames, a \in DirectiveArguments, t \in DirectiveTails}
LineTexts == InstructionLines \cup LabelLines \cup DirectiveLines \cup OtherLines

InitLine ==
    /\ pc = "parse_line"
    /\ arg \in [input : LineTexts, line_num : 1..MaxLineNum]
    /\ ret = None
    /\ Idle
    /\ NoCpu

CallParseLine ==
    /\ pc = "parse_line"
    /\ ret' = Some(parse_line(arg.input, arg.line_num))
    /\ pc' = "return"
    /\ UNCHANGED <<cpu, arg, cmd, str_lines, lines, instructions, start_pos, iter,
                   bytes, padded_bytes, output, error>>

NextLine == CallParseLine

SpecLine == InitLine /\ [][NextLine]_vars

(***************************************************************************)
(* nes_lib cpu.rs: CPU.  memory is vec![0; 0xFFFF]; it is kept as the      *)
(* function of the cells written so far, every other cell reading 0, and   *)
(* an index of MemoryLen or more panics.                                   *)
(***************************************************************************)
MemoryLen == \hFFFF
\* the address load copies the program to
ProgramBase == \h8000
\* the address reset reads the program counter from
ResetVectorAddress == \hFFFC

\* CPU::new()
CPU_new ==
    [register_a |-> 0, register_x |-> 0, register_y |-> 0, status |-> 0,
     program_counter |-> 0, memory |-> <<>>, is_running |-> FALSE]

\* self.memory[addr as usize], for addr < MemoryLen
mem_read(c, addr) ==
    IF addr \in DOMAIN c.memory THEN c.memory[addr] ELSE 0

mem_read_u16(c, pos) == mem_read(c, pos + 1) * 256 + mem_read(c, pos)

\* self.memory[addr] = data
mem_write(c, addr, data) ==
    [c EXCEPT !.memory = [a \in DOMAIN c.memory \cup {addr} |->
                              IF a = addr THEN data ELSE c.memory[a]]]

mem_write_u16(c, pos, data) ==
    mem_write(mem_write(c, pos, data % 256), pos + 1, data \div 256)

\* CPU::load: copy_from_slice into memory[0x8000 .. 0x8000 + program.len()]
load(c, program) ==
    [c EXCEPT !.memory =
        [a \in DOMAIN c.memory
                 \cup {ProgramBase + i - 1 : i \in DOMAIN program} |->
            IF a - ProgramBase + 1 \in DOMAIN program
            THEN program[a - ProgramBase + 1] ELSE c.memory[a]]]

\* CPU::reset
reset(c) ==
    [c EXCEPT !.register_a = 0, !.register_x = 0, !.register_y = 0,
              !.status = 0,
              !.program_counter = mem_read_u16(c, ResetVectorAddress)]

\* status | mask and status & !mask, for a mask of one bit
SetBit(status, mask) ==
    IF (status \div mask) % 2 = 1 THEN status ELSE status + mask
ClearBit(status, mask) ==
    IF (status \div mask) % 2 = 1 THEN status - mask ELSE status

ZeroFlag == 2
NegativeFlag == 128

\* CPU::update_zero_and_negative_flags
ZeroUpdated(status, result) ==
    IF result = 0 THEN SetBit(status, ZeroFlag) ELSE ClearBit(status, ZeroFlag)
update_zero_and_negative_flags(c, result) ==
    [c EXCEPT !.status =
        IF (result \div NegativeFlag) % 2 # 0
        THEN SetBit(ZeroUpdated(c.status, result), NegativeFlag)
        ELSE ClearBit(ZeroUpdated(c.status, result), NegativeFlag)]

\* CPU::lda, CPU::tax, CPU::sta
lda(c, value) ==
    update_zero_and_negative_flags([c EXCEPT !.register_a = value], value)
tax(c) ==
    update_zero_and_negative_flags([c EXCEPT !.register_x = c.register_a],
                                   c.register_a)
sta(c, value) == mem_write(c, value, c.register_a)

\* the CPU after `self.program_counter += 1`
Advanced(c) == [c EXCEPT !.program_counter = c.program_counter + 1]

\* one arm of the match of CPU::run, the opcode fetched and the counter
\* advanced: the CPU after it
Executed(c, opscode) ==
    CASE opscode = \hA9 -> lda(Advanced(c), mem_read(c, c.program_counter))
      [] opscode = \hAA -> tax(c)
      [] opscode = \h85 -> sta(Advanced(c), mem_read(c, c.program_counter))
      [] OTHER -> c

\* the opcodes CPU::run has an arm for, and those that read a parameter
KnownOpcodes == {\hA9, \hAA, \h85, \h00}
ParameterOpcodes == {\hA9, \h85}

\* ---- CPU::load_and_run ---------------------------------------------------
\* LDA #v; BRK for every byte v, and a few other programs
CpuPrograms ==
    {<<\hA9, v, \h00>> : v \in 0..255}
    \cup {<<>>, <<\h00>>, <<\hAA, \h00>>, <<\hA9, \h05, \h85, \h10, \h00>>,
          <<\hFF>>}

\* the CPU load_and_run is called on: CPU::new(), or one whose caller stored
\* the reset vector through the public memory field beforehand
CallerCpus ==
    {CPU_new, mem_write_u16(CPU_new, ResetVectorAddress, ProgramBase)}

InitCpu ==
    /\ pc = "load_and_run"
    /\ arg \in CpuPrograms
    /\ ret = None
    /\ cpu \in CallerCpus
    /\ Idle

\* self.load(program)
CpuLoad ==
    /\ pc = "load_and_run"
    /\ IF ProgramBase + Len(arg) > MemoryLen
       THEN pc' = "panic" /\ UNCHANGED cpu
       ELSE pc' = "reset" /\ cpu' = load(cpu, arg)
    /\ UNCHANGED <<arg, ret, cmd, str_lines, lines, instructions, start_pos,
                   iter, bytes, padded_bytes, output, error>>

\* self.reset()
CpuReset ==
    /\ pc = "reset"
    /\ cpu' = reset(cpu)
    /\ pc' = "run"
    /\ UNCHANGED <<arg, ret, cmd, str_lines, lines, instructions, start_pos,
                   iter, bytes, padded_bytes, output, error>>

\* self.run(): is_running = true, before the loop
CpuRun ==
    /\ pc = "run"
    /\ cpu' = [cpu EXCEPT !.is_running = TRUE]
    /\ pc' = "loop"
    /\ UNCHANGED <<arg, ret, cmd, str_lines, lines, instructions, start_pos,
                   iter, bytes, padded_bytes, output, error>>

\* one iteration of the loop of run: an index out of the memory, the
\* overflow of the program counter and todo!() panic
CpuStep ==
    /\ pc = "loop"
    /\ IF cpu.program_counter >= MemoryLen
       THEN pc' = "panic" /\ UNCHANGED cpu
       ELSE IF mem_read(cpu, cpu.program_counter) \notin KnownOpcodes
       THEN pc' = "panic" /\ cpu' = Advanced(cpu)
       ELSE IF /\ mem_read(cpu, cpu.program_counter) \in ParameterOpcodes
               /\ cpu.program_counter + 1 >= MemoryLen
       THEN pc' = "panic" /\ cpu' = Advanced(cpu)
       ELSE /\ cpu' = Executed(Advanced(cpu),
                               mem_read(cpu, cpu.program_counter))
            /\ pc' = IF mem_read(cpu, cpu.program_counter) = \h00
                     THEN "break" ELSE "loop"
    /\ UNCHANGED <<arg, ret, cmd, str_lines, lines, instructions, start_pos,
                   iter, bytes, padded_bytes, output, error>>

\* after the loop: is_running = false, and load_and_run returns
CpuReturn ==
    /\ pc = "break"
    /\ cpu' = [cpu EXCEPT !.is_running = FALSE]
    /\ pc' = "return"
    /\ UNCHANGED <<arg, ret, cmd, str_lines, lines, instructions, start_pos,
                   iter, bytes, padded_bytes, output, error>>

NextCpu ==
    \/ CpuLoad
    \/ CpuReset
    \/ CpuRun
    \/ CpuStep
    \/ CpuReturn

SpecCpu == InitCpu /\ [][NextCpu]_vars

\* ---- proccess_instructions -----------------------------------------------
MaxResolveLines == 4
\* parsed lines: two Org directives, two labels, instructions of the three
\* sizes, references to the labels and to a label nothing defines
ResolveLinePool ==
    {LineDirectiveOrg(\h8000), LineDirectiveOrg(\hC000),
     LineLabel(<<"l","o","o","p">>), LineLabel(<<"e","n","d">>),
     LineInstruction(Instruction(<<"L","D","A">>, Some(Address(5, "Immediate")))),
     LineInstruction(Instruction(<<"S","T","A">>, Some(Address(\h4400, "AbsoluteX")))),
     LineInstruction(Instruction(<<"B","R","K">>, None)),
     LineInstruction(Instruction(<<"J","M","P">>, Some(Label(<<"l","o","o","p">>)))),
     LineInstruction(Instruction(<<"B","N","E">>, Some(Label(<<"e","n","d">>)))),
     LineInstruction(Instruction(<<"J","M","P">>, Some(Label(<<"n","o","n","e">>)))),
     Comment, EmptyLine}

\* the lines of a file, each with its line number
Numbered(ls) == [i \in DOMAIN ls |-> <<ls[i], i>>]
ResolveInputs ==
    {Numbered(ls) : ls \in SeqsOf(ResolveLinePool, 0, MaxResolveLines)}

InitResolve ==
    /\ pc = "proccess_instructions"
    /\ arg \in ResolveInputs
    /\ ret = None
    /\ Idle
    /\ NoCpu

CallResolve ==
    /\ pc = "proccess_instructions"
    /\ ret' = Some(proccess_instructions(arg))
    /\ pc' = "return"
    /\ UNCHANGED <<cpu, arg, cmd, str_lines, lines, instructions, start_pos,
                   iter, bytes, padded_bytes, output, error>>

NextResolve == CallResolve

SpecResolve == InitResolve /\ [][NextResolve]_vars

(***************************************************************************)
(* Properties                                                              *)
(***************************************************************************)
\* the operand of the instruction under SpecInstr
ArgOperand == arg.instr.operand
ArgIsAddress == ArgOperand # None /\ ArgOperand[1].tag = "Address"
ArgIsLabel == ArgOperand # None /\ ArgOperand[1].tag = "Label"

\* C1: for every instruction (operand absent, an Address of any mode, or a
\* Label) on which Instruction::to_bytes succeeds, the number of bytes it
\* returns equals Instruction::size() of the same instruction.
C1_SizeEqualsEncodedLength ==
    (pc = "return" /\ ret[3].ok) => Len(ret[3].val) = ret[2]

\* C2: assembling .ORG $8000 / LDA #$05 / STA $00 / BRK in ROM mode succeeds
\* (only writing the file can fail), and the image starts with A9 05 85 00
\* 00, is zero from there up to the reset vector, has the reset vector 00 80
\* and ends with 00 00 00 00.
C2_ExampleRomImage ==
    (str_lines = ExampleProgram /\ cmd = "NES") =>
        /\ pc = "exit" => (error[1].kind = "IOError" /\ padded_bytes # <<>>)
        /\ pc \in {"write_bytes_to_file", "done"} =>
              /\ SubSeq(padded_bytes, 1, 5) = <<\hA9, \h05, \h85, \h00, \h00>>
              /\ \A i \in 6..(Len(padded_bytes) - 6) : padded_bytes[i] = 0
              /\ SubSeq(padded_bytes, Len(padded_bytes) - 5,
                        Len(padded_bytes)) = <<\h00, \h80, 0, 0, 0, 0>>
        /\ pc = "done" => output = <<padded_bytes>>

C2_ExampleRomImageWritten ==
    str_lines = ExampleProgram /\ cmd = "NES" /\ pc = "done"

\* C3: whenever add_padding succeeds, for every program length from 0 to
\* 0xFFC and every origin, the image is exactly 4096 (0x1000) bytes long.
C3_RomImageIs4096Bytes ==
    (pc = "return" /\ ret[1].ok) => Len(ret[1].val) = \h1000

\* C4: add_padding fails with ProgramTooLarge exactly when the program has
\* more than 0xFFC bytes; a program of exactly 0xFFC bytes is accepted and
\* the reset vector follows its last byte with no zero padding in between.
C4_ProgramTooLargeOnlyAbove0xFFC ==
    pc = "return" =>
        /\ (~ret[1].ok /\ ret[1].kind = "ProgramTooLarge")
              <=> Len(arg.bytes) > \hFFC
        /\ ret[1].ok <=> Len(arg.bytes) <= \hFFC
        /\ Len(arg.bytes) = \hFFC =>
              SubSeq(ret[1].val, 1, \hFFC + 2) =
                  arg.bytes \o <<arg.start_pos % 256, arg.start_pos \div 256>>

C4_FullProgramAccepted ==
    pc = "return" /\ Len(arg.bytes) = \hFFC /\ ret[1].ok

\* the names the Label lines of the parsed program define
DefinedLabels ==
    {lines[i][1].name : i \in {j \in DOMAIN lines : lines[j][1].tag = "Label"}}

\* the positions of the Instruction lines whose Label operand is not defined
UndefinedReferences ==
    {i \in DOMAIN lines :
        /\ lines[i][1].tag = "Instruction"
        /\ lines[i][1].instr.operand # None
        /\ lines[i][1].instr.operand[1].tag = "Label"
        /\ lines[i][1].instr.operand[1].name \notin DefinedLabels}

\* every line was parsed and proccess_instructions has returned
ResolverReturned ==
    /\ Len(lines) = Len(str_lines)
    /\ pc \notin {"parse_file", "proccess_instructions"}

\* C5: if an Instruction line has a Label operand that no Label line
\* defines, proccess_instructions fails with InvalidLabel whose message
\* names that label and whose line is the line number of the first such
\* instruction in file order, and it returns no instruction sequence.
C5_UndefinedLabelIsInvalidLabel ==
    (ResolverReturned /\ UndefinedReferences # {}) =>
        /\ pc = "exit"
        /\ error = Some(Err("InvalidLabel", "Did not find {}",
                 <<lines[Min(UndefinedReferences)][1].instr.operand[1].name>>,
                 Some(lines[Min(UndefinedReferences)][2])))
        /\ instructions = <<>>

C5_TwoUndefinedLabels ==
    /\ ResolverReturned
    /\ pc = "exit"
    /\ \E i, j \in UndefinedReferences :
          lines[i][1].instr.operand[1].name # lines[j][1].instr.operand[1].name

\* the operand width the sentence of C6 gives each addressing mode
WidthLimit(mode) ==
    IF mode \in {"Absolute", "AbsoluteX", "AbsoluteY"} THEN \hFFFF ELSE \hFF
SizedModes == {"Absolute", "AbsoluteX", "AbsoluteY", "ZeroPage", "ZeroPageX",
               "ZeroPageY", "Indirect", "IndirectY", "Immediate"}

\* C6 as stated: an Address operand whose value exceeds the width of its own
\* addressing mode makes Instruction::to_bytes fail with OperandOutOfRange.
C6_OutOfRangeByOperandMode ==
    (/\ pc = "return"
     /\ ArgIsAddress
     /\ ArgOperand[1].address_mode \in SizedModes
     /\ ArgOperand[1].address > WidthLimit(ArgOperand[1].address_mode))
        => (~ret[3].ok /\ ret[3].kind = "OperandOutOfRange")

\* the mode the opcode is looked up with: Absolute for JSR, else the operand's
LookupMode ==
    IF arg.instr.opcode = <<"J","S","R">> THEN "Absolute"
    ELSE ArgOperand[1].address_mode
InOpcodeTable ==
    \E e \in OPCODE_LOOKUP : e[1] = arg.instr.opcode /\ e[2] = LookupMode

\* C6: an Address operand whose value exceeds the width of the mode the
\* opcode is looked up with (Absolute for JSR, else the operand's mode) makes
\* Instruction::to_bytes fail: with OperandOutOfRange when the opcode table
\* has the mnemonic in that mode, with OpCodeConversionError when not; and
\* the operand bytes of a successful encoding hold the whole value.
C6_OutOfRangeByLookupMode ==
    (pc = "return" /\ ArgIsAddress /\ LookupMode \in SizedModes) =>
        /\ ArgOperand[1].address > WidthLimit(LookupMode) =>
              /\ ~ret[3].ok
              /\ ret[3].kind = IF InOpcodeTable THEN "OperandOutOfRange"
                               ELSE "OpCodeConversionError"
        /\ (ret[3].ok /\ WidthLimit(LookupMode) = \hFFFF) =>
              /\ Len(ret[3].val) = 3
              /\ ret[3].val[2] + 256 * ret[3].val[3] = ArgOperand[1].address
        /\ (ret[3].ok /\ WidthLimit(LookupMode) = \hFF) =>
              /\ Len(ret[3].val) = 2
              /\ ret[3].val[2] = ArgOperand[1].address

C6_ZeroPageOperandOutOfRange ==
    /\ pc = "return"
    /\ arg.instr = Instruction(<<"L","D","A">>,
                               Some(Address(\h100, "ZeroPage")))
    /\ ~ret[3].ok
    /\ ret[3].kind = "OperandOutOfRange"

\* the index suffixes the sentence of C7 names, and the mode it gives a
\* payload p followed by suffix s
NamedSuffixes == {<<>>, <<",","X">>, <<",","Y">>}
ModeByDigitCount(p, s) ==
    IF s = <<",","X">> THEN (IF Len(p) <= 2 THEN "ZeroPageX" ELSE "AbsoluteX")
    ELSE IF s = <<",","Y">>
    THEN (IF Len(p) <= 2 THEN "ZeroPageY" ELSE "AbsoluteY")
    ELSE (IF Len(p) <= 2 THEN "ZeroPage" ELSE "Absolute")
\* the payload has a value a u32 holds
FitsU32(p) == Len(StripZeros(p)) <= 8

\* C7 as stated: for every `$<hex>` operand, optionally followed by ,X or
\* ,Y, parse_operand gives the zero-page mode for at most 2 digits written and
\* the absolute mode for more, and the address is the value of the payload.
C7_ModeByDigitCountAlways ==
    pc = "return" =>
        \A p \in HexPayloads, s \in NamedSuffixes :
            arg.input = <<"$">> \o p \o s =>
                /\ ret[1].ok
                /\ ret[1].out.ok
                /\ ret[1].out.val.address_mode = ModeByDigitCount(p, s)
                /\ ret[1].out.val.address = HexValue(p)

\* C7: for every `$<hex>` operand, optionally followed by ,X or ,Y, whose
\* payload has a value that fits 32 bits, parse_operand consumes it all and
\* gives the zero-page mode for at most 2 digits written and the absolute
\* mode for more, with the value of the payload as address; a payload that
\* does not fit gives ParseError with the line number.
C7_ModeByDigitCount ==
    pc = "return" =>
        \A p \in HexPayloads, s \in NamedSuffixes :
            arg.input = <<"$">> \o p \o s =>
                IF FitsU32(p)
                THEN ret[1] = Parsed(Len(arg.input) + 1,
                                     Ok(Address(HexValue(p),
                                                ModeByDigitCount(p, s))))
                ELSE /\ ret[1].ok
                     /\ ~ret[1].out.ok
                     /\ ret[1].out.kind = "ParseError"
                     /\ ret[1].out.line = Some(arg.line_num)

C7_FourDigitsForSmallValue ==
    /\ pc = "return"
    /\ arg.input = <<"$","0","0","4","4">>
    /\ ret[1].ok
    /\ ret[1].out = Ok(Address(\h44, "Absolute"))

\* C8: parse_operand yields Accumulator (address 0) only for an operand that
\* is exactly A or a, optionally followed by whitespace; every other bare
\* identifier, also one that begins with A or a, yields Label carrying the
\* whole identifier.
C8_AccumulatorOnlyForA ==
    pc = "return" =>
        \A w \in Identifiers, t \in {<<>>, <<" ">>} :
            arg.input = w \o t =>
                /\ ret[1].ok
                /\ ret[1].out = IF w \in {<<"A">>, <<"a">>}
                                THEN Ok(Address(0, "Accumulator"))
                                ELSE Ok(Label(w))

\* C9: for each of the eight branch mnemonics, a line with a direct $hex
\* operand fails in parse_line with InvalidOpCode, and a line whose operand
\* is a label the program defines passes parsing, validation and resolution
\* (which makes the operand Absolute) and fails at encoding with
\* OpCodeConversionError naming the mnemonic.
C9_BranchFailsAtEncoding ==
    \A m \in BranchMnemonics :
        /\ \A a \in BranchAddresses :
              str_lines = <<m \o <<" ">> \o a>> =>
                  \/ pc = "parse_file" /\ lines = <<>>
                  \/ /\ pc = "exit"
                     /\ lines = <<>>
                     /\ error[1].kind = "InvalidOpCode"
        /\ \A l \in BranchLabels :
              str_lines \in {<<l \o <<":">>, m \o <<" ">> \o l>>,
                             <<m \o <<" ">> \o l, l \o <<":">>>>} =>
                  /\ pc \in {"parse_file", "proccess_instructions",
                             "to_bytes", "exit"}
                  /\ pc = "exit" =>
                        /\ error = Some(Err("OpCodeConversionError", "{}",
                                            <<m>>, None))
                        /\ Len(lines) = 2
                        /\ Len(instructions) = 1
                        /\ instructions[1].operand[1].address_mode = "Absolute"

\* the mnemonics that take an operand, less JMP, JSR and the eight branches
LabelRefusingMnemonics ==
    {<<"A","D","C">>, <<"A","N","D">>, <<"A","S","L">>, <<"B","I","T">>,
     <<"C","M","P">>, <<"C","P","X">>, <<"C","P","Y">>, <<"D","E","C">>,
     <<"E","O","R">>, <<"I","N","C">>, <<"L","D","A">>, <<"L","D","X">>,
     <<"L","D","Y">>, <<"L","S","R">>, <<"O","R","A">>, <<"R","O","L">>,
     <<"R","O","R">>, <<"S","B","C">>, <<"S","T","A">>, <<"S","T","X">>,
     <<"S","T","Y">>}

\* C10: validate_instruction refuses a Label operand with InvalidOpCode
\* ("does not support labels") for every mnemonic that takes an operand
\* except JMP, JSR and the eight branches, and accepts any Label operand of
\* JMP and JSR, whatever its name.
C10_LabelOperandValidation ==
    (Len(ret) >= 1 /\ ArgIsLabel) =>
        /\ to_ascii_uppercase(arg.instr.opcode) \in LabelRefusingMnemonics =>
              ret[1] = Err("InvalidOpCode", "{} does not support labels",
                           <<arg.instr.opcode>>, Some(arg.line_num))
        /\ to_ascii_uppercase(arg.instr.opcode)
              \in {<<"J","M","P">>, <<"J","S","R">>} => ret[1].ok

C10_JmpUndefinedLabelAccepted ==
    /\ pc = "return"
    /\ arg.instr = Instruction(<<"J","M","P">>,
                               Some(Label(<<"n","o","w","h","e","r","e">>)))
    /\ ret[1].ok

\* C11: parse_line never returns partial success: a line with text left
\* over that no rule consumed, such as extra characters after a complete
\* operand, fails.
C11_LeftoverTextFails ==
    pc = "return" =>
        \A m \in OpcodeWords, o \in OperandWords :
            arg.input = m \o <<" ">> \o o \o <<" ","j","u","n","k">> =>
                ~ret[1].ok

\* C12: every error parse_line(text, n) returns carries the line number n.
C12_EveryErrorCarriesLine ==
    (pc = "return" /\ ~ret[1].ok) => ret[1].line = Some(arg.line_num)

\* none of the five line grammars matches the line
NoGrammarMatches ==
    /\ ~parse_instruction(arg.input, arg.line_num).ok
    /\ ~parse_comment_line(arg.input).ok
    /\ ~parse_label(arg.input).ok
    /\ ~parse_empty_line(arg.input).ok
    /\ ~parse_directive(arg.input).ok

UnexpectedToken ==
    Err("ParseError", "Unexpected token", <<>>, Some(arg.line_num))

\* C13: parse_line(text, n) on a line that matches none of the five line
\* grammars fails with ParseError { line: n, msg: "Unexpected token" }, and
\* with that error on no other line; `======` is such a line.
C13_UnexpectedToken ==
    pc = "return" =>
        /\ NoGrammarMatches <=> ret[1] = UnexpectedToken
        /\ arg.input = <<"=","=","=","=","=","=">> => ret[1] = UnexpectedToken

C13_EqualsLineRefused ==
    /\ pc = "return"
    /\ arg.input = <<"=","=","=","=","=","=">>
    /\ ret[1] = UnexpectedToken

\* the hex arguments of the directive lines, and those of at most 0xFFFF
HexArguments == DirectiveArguments \ {<<"z","z">>}
FitsU16(a) == Len(StripZeros(a)) <= 4

\* C14: a directive line `.<name> $<hex>` with name ORG in any letter case
\* and an argument of at most 0xFFFF yields Directive::Org(argument); with
\* an argument above 0xFFFF it fails with ParseErrorNom ("Failed to parse to
\* u16"); every other name fails with InvalidDirective(name).
C14_OrgDirective ==
    pc = "return" =>
        \A n \in DirectiveNames, a \in HexArguments, t \in {<<>>, <<" ">>} :
            arg.input = <<".">> \o n \o <<" ", "$">> \o a \o t =>
                IF to_ascii_uppercase(n) # <<"O","R","G">>
                THEN ret[1] = Err("InvalidDirective", "{}", <<n>>, None)
                ELSE IF FitsU16(a)
                THEN ret[1] = Ok(LineDirectiveOrg(HexValue(a)))
                ELSE ret[1] = Err("ParseErrorNom", "Failed to parse to u16",
                                  <<>>, None)

C14_OrgArgumentTooLarge ==
    /\ pc = "return"
    /\ arg.input = <<".","o","r","g"," ","$","8","0","0","0","0">>
    /\ ~ret[1].ok
    /\ ret[1].kind = "ParseErrorNom"

\* C15: parse_line returns Line::Label only for an identifier of
\* alphanumerics and underscores that is not purely numeric: `123:` is never
\* returned as Line::Label.
C15_NoNumericLabel ==
    (pc = "return" /\ ret[1].ok /\ ret[1].val.tag = "Label") =>
        /\ \A i \in DOMAIN ret[1].val.name :
              ret[1].val.name[i] \in Alphanumeric \cup {"_"}
        /\ \E i \in DOMAIN ret[1].val.name :
              ret[1].val.name[i] \notin Range(DecimalDigits)

\* the names under which the opcode table has entries
TableMnemonics == {e[1] : e \in OPCODE_LOOKUP}

\* C16: whenever validate_instruction accepts an instruction, its mnemonic is
\* one of the 56 upper-case names of the opcode table; every other mnemonic
\* fails with InvalidOpCode naming the mnemonic and the line.
C16_ValidatedMnemonicIsSupported ==
    Len(ret) >= 1 =>
        /\ ret[1].ok => arg.instr.opcode \in TableMnemonics
        /\ arg.instr.opcode \notin TableMnemonics =>
              /\ ~ret[1].ok
              /\ ret[1].kind = "InvalidOpCode"
              /\ arg.instr.opcode \in Range(ret[1].args)
              /\ ret[1].line = Some(arg.line_num)

\* the stage a run may go to from each stage
StageOrder ==
    {<<"parse_file", "parse_file">>, <<"parse_file", "proccess_instructions">>,
     <<"parse_file", "exit">>,
     <<"proccess_instructions", "to_bytes">>,
     <<"proccess_instructions", "exit">>,
     <<"to_bytes", "to_bytes">>, <<"to_bytes", "add_padding">>,
     <<"to_bytes", "write_bytes_to_file">>, <<"to_bytes", "exit">>,
     <<"add_padding", "write_bytes_to_file">>, <<"add_padding", "exit">>,
     <<"write_bytes_to_file", "done">>, <<"write_bytes_to_file", "exit">>}

\* one step of a run that stops at its first failure
FirstFailureStep ==
    /\ error = None
    /\ pc \notin {"exit", "done"}
    /\ <<pc, pc'>> \in StageOrder
    /\ (error' # None) <=> (pc' = "exit")
    /\ (pc = "parse_file" /\ pc' = "parse_file") =>
          /\ Len(lines') = Len(lines) + 1
          /\ lines'[Len(lines')][2] = Len(lines')
          /\ SubSeq(lines', 1, Len(lines)) = lines
    /\ (pc = "parse_file" /\ pc' = "exit") =>
          /\ error' = Some(parse_line(str_lines[Len(lines) + 1], Len(lines) + 1))
          /\ UNCHANGED <<lines, instructions, bytes, padded_bytes, output>>
    /\ (pc = "parse_file" /\ pc' = "proccess_instructions") =>
          Len(lines) = Len(str_lines)
    /\ (pc = "proccess_instructions" /\ pc' = "exit") =>
          /\ error'[1].line = Some(lines[Min(UndefinedReferences)][2])
          /\ UNCHANGED <<lines, instructions, bytes, padded_bytes, output>>
    /\ (pc = "to_bytes" /\ pc' = "to_bytes") =>
          /\ iter' = iter + 1
          /\ bytes' = bytes \o to_bytes(instructions[iter]).val
    /\ (pc = "to_bytes" /\ pc' = "exit") =>
          /\ error' = Some(to_bytes(instructions[iter]))
          /\ UNCHANGED <<lines, instructions, bytes, padded_bytes, output>>
    /\ (pc = "to_bytes" /\ pc' \in {"add_padding", "write_bytes_to_file"}) =>
          iter > Len(instructions)
    /\ pc' = "exit" => output' = <<>>

\* C17: a run reports exactly one error, the first failure encountered: the
\* stages run in the order parse+validate (line by line in file order),
\* resolve, encode (instruction by instruction in order), pad; the first
\* failing line or instruction aborts the run and nothing is processed after
\* it.
C17_FirstFailureAborts == [][FirstFailureStep]_vars

C17_EncodingFailedAfterProgress ==
    /\ pc = "exit"
    /\ bytes # <<>>
    /\ error[1].kind = "OpCodeConversionError"

\* the number of Instruction lines parsed
InstructionLineCount ==
    Cardinality({i \in DOMAIN lines : lines[i][1].tag = "Instruction"})

\* C18: in Assemble and NES modes the output file is written at most once
\* per run and only after parsing, validation, resolution, encoding and (in
\* NES mode) padding have all succeeded; on a failure it is never written.
C18_OutputWrittenOnceAfterSuccess ==
    /\ Len(output) <= 1
    /\ pc = "exit" => output = <<>>
    /\ output # <<>> =>
          /\ pc = "done"
          /\ error = None
          /\ Len(lines) = Len(str_lines)
          /\ Len(instructions) = InstructionLineCount
          /\ iter > Len(instructions)
          /\ cmd = "NES" => (padded_bytes # <<>> /\ output[1] = padded_bytes)
          /\ cmd = "Assemble" => output[1] = bytes

C18_AssembledBytesWritten ==
    /\ pc = "done"
    /\ cmd = "Assemble"
    /\ bytes # <<>>
    /\ output = <<bytes>>

\* the size the sentence of C20 gives an instruction: 3 with a Label operand
SizeByOperand(instr) ==
    IF instr.operand = None THEN 1
    ELSE IF instr.operand[1].tag = "Label" THEN 3
    ELSE IF instr.operand[1].address_mode
               \in {"Absolute", "AbsoluteX", "AbsoluteY"} THEN 3
    ELSE IF instr.operand[1].address_mode
               \in {"ZeroPage", "ZeroPageX", "ZeroPageY", "Indirect",
                    "IndirectY", "Immediate"} THEN 2
    ELSE 1

\* the sum of the sizes of the Instruction lines before line i
RECURSIVE SizeBefore(_)
SizeBefore(i) ==
    IF i <= 1 THEN 0
    ELSE SizeBefore(i - 1)
         + (IF lines[i - 1][1].tag = "Instruction"
            THEN SizeByOperand(lines[i - 1][1].instr) ELSE 0)

\* the line that defines label l (the last one, if several do)
DefinitionLine(l) ==
    CHOOSE i \in DOMAIN lines :
        /\ lines[i][1] = LineLabel(l)
        /\ \A j \in DOMAIN lines : lines[j][1] = LineLabel(l) => j <= i

\* the positions of the Instruction lines whose operand is a Label
LabelReferences ==
    {i \in DOMAIN lines :
        /\ lines[i][1].tag = "Instruction"
        /\ lines[i][1].instr.operand # None
        /\ lines[i][1].instr.operand[1].tag = "Label"}

\* the place of Instruction line i in the instruction sequence
InstructionIndex(i) ==
    Cardinality({j \in 1..i : lines[j][1].tag = "Instruction"})

ResolverSucceeded == ResolverReturned /\ UndefinedReferences = {}

\* C20: the address given to a label is origin + the sum of size() over the
\* Instruction lines that precede its definition line (other lines add
\* nothing, an instruction with a Label operand counts 3), and every
\* instruction that references the label, before or after the definition, is
\* rewritten to that address, in mode Absolute.
C20_LabelAddress ==
    ResolverSucceeded =>
        \A i \in LabelReferences :
            instructions[InstructionIndex(i)].operand =
                Some(Address(start_pos
                             + SizeBefore(DefinitionLine(
                                   lines[i][1].instr.operand[1].name)),
                             "Absolute"))

C20_ReferencedBeforeAndAfter ==
    /\ ResolverSucceeded
    /\ \E i, k \in LabelReferences :
          /\ lines[i][1].instr.operand[1].name
                = lines[k][1].instr.operand[1].name
          /\ i < DefinitionLine(lines[i][1].instr.operand[1].name)
          /\ DefinitionLine(lines[i][1].instr.operand[1].name) < k

\* C19: CPU::load_and_run(program) loads the program at 0x8000 and executes
\* it from its first byte: for the program [0xA9, v, 0x00] and every byte v,
\* after it returns register_a == v, the zero flag (status bit 1) is set iff
\* v == 0, the negative flag (status bit 7) is set iff v >= 0x80, and
\* is_running is false.
C19_LdaImmediateThenBrk ==
    pc = "return" =>
        \A v \in 0..255 :
            arg = <<\hA9, v, \h00>> =>
                /\ cpu.register_a = v
                /\ ((cpu.status \div 2) % 2 = 1) <=> (v = 0)
                /\ ((cpu.status \div 128) % 2 = 1) <=> (v >= \h80)
                /\ ~cpu.is_running

\* the positions of the Org directives among the lines ls
OrgLines(ls) == {i \in DOMAIN ls : ls[i][1].tag = "Directive"}

\* the positions of the Instruction lines among the lines ls
InstructionLinesOf(ls) == {i \in DOMAIN ls : ls[i][1].tag = "Instruction"}

\* the sum of the sizes of the Instruction lines of ls before line i
RECURSIVE SizeBeforeIn(_, _)
SizeBeforeIn(ls, i) ==
    IF i <= 1 THEN 0
    ELSE SizeBeforeIn(ls, i - 1)
         + (IF ls[i - 1][1].tag = "Instruction"
            THEN SizeByOperand(ls[i - 1][1].instr) ELSE 0)

\* the positions of the Label lines of ls that define the name l
DefinitionsOf(ls, l) == {i \in DOMAIN ls : ls[i][1] = LineLabel(l)}

\* the positions of the Instruction lines of ls whose operand is a Label
ReferencesIn(ls) ==
    {i \in InstructionLinesOf(ls) :
        /\ ls[i][1].instr.operand # None
        /\ ls[i][1].instr.operand[1].tag = "Label"}

\* the place of Instruction line i of ls in the instruction sequence
IndexIn(ls, i) == Cardinality({j \in InstructionLinesOf(ls) : j <= i})

Max(S) == CHOOSE x \in S : \A y \in S : y <= x

\* the origin the sentence of C21 gives a program
OriginOf(ls) ==
    IF OrgLines(ls) = {} THEN 0 ELSE ls[Max(OrgLines(ls))][1].address

\* proccess_instructions has returned Ok
ResolveOk == pc = "return" /\ ret # None /\ ret[1].ok

\* C21: the origin returned by proccess_instructions is the argument of the
\* last Org directive in file order, or 0 without one; several Org
\* directives raise no error, and the origin is the start of the location
\* counter for the whole program: a label before or after an Org line is
\* given origin + the sizes of the instructions before it, so an Org line
\* does not change the counter where it appears.
C21_LastOrgIsTheOrigin ==
    pc = "return" =>
        /\ ret[1].ok => ret[1].val.start_pos = OriginOf(arg)
        /\ ~ret[1].ok => ret[1].kind = "InvalidLabel"
        /\ ret[1].ok =>
              \A i \in ReferencesIn(arg) :
                 \E d \in DefinitionsOf(arg, arg[i][1].instr.operand[1].name) :
                    ret[1].val.instructions[IndexIn(arg, i)].operand[1].address
                        = OriginOf(arg) + SizeBeforeIn(arg, d)

\* two different Org directives, an instruction and a label defined before
\* the last Org and referenced
C21_TwoOrgsAroundLabel ==
    /\ ResolveOk
    /\ \E i, j \in OrgLines(arg) :
          /\ i < j
          /\ arg[i][1].address # arg[j][1].address
          /\ \E r \in ReferencesIn(arg) :
                \E d \in DefinitionsOf(arg, arg[r][1].instr.operand[1].name) :
                    d < j /\ SizeBeforeIn(arg, d) > 0

\* the addresses the label name l can stand for in ls
AddressesOf(ls, l) ==
    {OriginOf(ls) + SizeBeforeIn(ls, d) : d \in DefinitionsOf(ls, l)}

\* C22: the second pass changes only operands that are Label references:
\* each becomes an Address with the label's address and mode Absolute,
\* whatever the mnemonic; every mnemonic and every operand that was absent
\* or already an Address comes out as parsed.
C22_OnlyLabelOperandsRewritten ==
    ResolveOk =>
        \A i \in InstructionLinesOf(arg) :
            /\ ret[1].val.instructions[IndexIn(arg, i)].opcode
                  = arg[i][1].instr.opcode
            /\ IF i \in ReferencesIn(arg)
               THEN \E a \in AddressesOf(arg, arg[i][1].instr.operand[1].name) :
                       ret[1].val.instructions[IndexIn(arg, i)].operand
                           = Some(Address(a, "Absolute"))
               ELSE ret[1].val.instructions[IndexIn(arg, i)].operand
                       = arg[i][1].instr.operand

\* a branch to a label next to an instruction with an Address operand and
\* one without operand
C22_BranchAmongOtherOperands ==
    /\ ResolveOk
    /\ \E i, j, k \in InstructionLinesOf(arg) :
          /\ i \in ReferencesIn(arg)
          /\ arg[i][1].instr.opcode = <<"B","N","E">>
          /\ arg[j][1].instr.operand = None
          /\ arg[k][1].instr.operand # None
          /\ arg[k][1].instr.operand[1].tag = "Address"
          /\ arg[k][1].instr.operand[1].address_mode # "Absolute"

\* the concatenation of the encodings of the first k resolved instructions
RECURSIVE EncodingsOf(_)
EncodingsOf(k) ==
    IF k = 0 THEN <<>>
    ELSE EncodingsOf(k - 1) \o to_bytes(instructions[k]).val

\* C23: on success the instruction sequence returned by
\* proccess_instructions holds exactly the Instruction lines of the input,
\* in input order, and the raw-binary output is the concatenation of their
\* encodings in that order with no header or padding; Label, Directive,
\* Comment and EmptyLine lines contribute no instruction and no byte.
C23_InstructionsInInputOrder ==
    /\ (ResolverReturned /\ UndefinedReferences = {}) =>
          /\ Len(instructions) = Cardinality(InstructionLinesOf(lines))
          /\ \A i \in InstructionLinesOf(lines) :
                /\ instructions[IndexIn(lines, i)].opcode
                      = lines[i][1].instr.opcode
                /\ i \notin ReferencesIn(lines) =>
                      instructions[IndexIn(lines, i)].operand
                          = lines[i][1].instr.operand
    /\ (cmd = "Assemble" /\ output # <<>>) =>
          output = <<EncodingsOf(Len(instructions))>>

\* two different instructions with another line between them, assembled
C23_CommentBetweenInstructions ==
    /\ pc = "done"
    /\ cmd = "Assemble"
    /\ output = <<EncodingsOf(Len(instructions))>>
    /\ \E i, j, k \in DOMAIN lines :
          /\ i < j /\ j < k
          /\ lines[i][1].tag = "Instruction"
          /\ lines[j][1].tag # "Instruction"
          /\ lines[k][1].tag = "Instruction"
          /\ lines[i][1].instr.opcode # lines[k][1].instr.opcode

\* every label referenced in ls is defined in ls
AllDefined(ls) ==
    \A i \in ReferencesIn(ls) :
        DefinitionsOf(ls, ls[i][1].instr.operand[1].name) # {}

\* C24: when one label name is defined by more than one Label line,
\* proccess_instructions reports no error and every reference to that name,
\* wherever it appears, resolves to the address recorded by the last
\* definition in file order.
C24_LastDefinitionWins ==
    pc = "return" =>
        /\ AllDefined(arg) => ret[1].ok
        /\ ret[1].ok =>
              \A i \in ReferencesIn(arg) :
                  ret[1].val.instructions[IndexIn(arg, i)].operand =
                      Some(Address(
                          OriginOf(arg)
                          + SizeBeforeIn(arg,
                                Max(DefinitionsOf(arg,
                                        arg[i][1].instr.operand[1].name))),
                          "Absolute"))

\* a label defined at two different addresses and referenced before the
\* last definition
C24_DefinedTwiceApart ==
    /\ ResolveOk
    /\ \E i \in ReferencesIn(arg) :
          \E d, e \in DefinitionsOf(arg, arg[i][1].instr.operand[1].name) :
              /\ d < e
              /\ i < e
              /\ SizeBeforeIn(arg, d) # SizeBeforeIn(arg, e)

\* the bytes the sentence of C25 puts after the opcode byte, for an operand
\* (absent or an Address of value v) and the effective mode
BytesAfterOpcode(operand, mode) ==
    IF operand = None THEN <<>>
    ELSE IF mode \in {"Absolute", "AbsoluteX", "AbsoluteY"}
    THEN <<operand[1].address % 256, operand[1].address \div 256>>
    ELSE IF mode \in {"ZeroPage", "ZeroPageX", "ZeroPageY", "Indirect",
                      "IndirectY", "Immediate"}
    THEN <<operand[1].address>>
    ELSE <<>>

\* the modes and operands the sentence of C25 speaks of
LaidOut(instr) ==
    \/ instr.operand = None
    \/ /\ instr.operand[1].tag = "Address"
       /\ EffectiveMode(instr) # "Implied"

\* C25: for every instruction that encodes successfully the opcode byte of
\* (mnemonic, effective mode) comes first, followed by the two bytes v mod
\* 256, v div 256 for Absolute/AbsoluteX/AbsoluteY, by the single byte v for
\* ZeroPage/ZeroPageX/ZeroPageY/Indirect/IndirectY/Immediate, and by nothing
\* for Accumulator, IndirectX, Relative and an absent operand.
C25_EncodedByteLayout ==
    (pc = "return" /\ ret[3].ok) =>
        /\ Len(ret[3].val) >= 1
        /\ <<arg.instr.opcode, EffectiveMode(arg.instr), ret[3].val[1]>>
              \in OPCODE_LOOKUP
        /\ \A k \in DOMAIN ret[3].val : ret[3].val[k] \in 0..255
        /\ LaidOut(arg.instr) =>
              SubSeq(ret[3].val, 2, Len(ret[3].val))
                  = BytesAfterOpcode(arg.instr.operand, EffectiveMode(arg.instr))

\* an absolute operand whose two bytes differ
C25_AbsoluteLowByteFirst ==
    /\ pc = "return"
    /\ arg.instr = Instruction(<<"S","T","A">>, Some(Address(\hFF, "AbsoluteX")))
    /\ ret[3] = Ok(<<\h9D, \hFF, \h00>>)

\* C26: when add_padding succeeds on program bytes P with origin o, the
\* image consists of P unchanged at offsets 0..len(P)-1, zero bytes from
\* offset len(P) up to offset 0xFFB, the reset vector at offsets 0xFFC and
\* 0xFFD equal to o mod 256 and o div 256, and then four zero bytes that are
\* the last bytes of the image.
C26_ImageLayout ==
    (pc = "return" /\ ret[1].ok) =>
        /\ SubSeq(ret[1].val, 1, Len(arg.bytes)) = arg.bytes
        /\ \A i \in (Len(arg.bytes) + 1)..PrgSize : ret[1].val[i] = 0
        /\ ret[1].val[PrgSize + 1] = arg.start_pos % 256
        /\ ret[1].val[PrgSize + 2] = arg.start_pos \div 256
        /\ SubSeq(ret[1].val, PrgSize + 3, Len(ret[1].val)) = <<0, 0, 0, 0>>

\* a program of non-zero bytes with an origin whose two bytes differ
C26_PaddedAfterProgram ==
    /\ pc = "return"
    /\ ret[1].ok
    /\ Len(arg.bytes) = MaxPad
    /\ arg.bytes[1] # 0
    /\ arg.start_pos = \h1234
    /\ ret[1].val[MaxPad] = arg.bytes[MaxPad]
    /\ ret[1].val[MaxPad + 1] = 0

\* parse_operand returned an Address of the given mode
ParsedAs(mode) ==
    /\ ret[1].ok
    /\ ret[1].out.ok
    /\ ret[1].out.val.tag = "Address"
    /\ ret[1].out.val.address_mode = mode

\* C27: parse_operand infers IndirectX for ($h,X) and IndirectY for ($h),Y
\* only when h is 1 or 2 hex digits, and Indirect for ($h) only when h is 1
\* to 4 hex digits; a parenthesised operand whose payload has more digits
\* than that is not accepted as that mode.
C27_IndirectPayloadWidth ==
    pc = "return" =>
        \A p \in ShortPayloads :
            /\ arg.input = <<"(","$">> \o p \o <<",","X",")">> =>
                  (ParsedAs("IndirectX") <=> Len(p) <= 2)
            /\ arg.input = <<"(","$">> \o p \o <<")",",","Y">> =>
                  (ParsedAs("IndirectY") <=> Len(p) <= 2)
            /\ arg.input = <<"(","$">> \o p \o <<")">> =>
                  (ParsedAs("Indirect") <=> Len(p) <= 4)

\* the opcode table has an entry for the mnemonic in the mode
InTable(opcode, mode) ==
    \E e \in OPCODE_LOOKUP : e[1] = opcode /\ e[2] = mode

LabelMap == FirstPass(lines, 1, OriginScan(lines, 1, 0), <<>>)

\* every line parsed and validated, the labels resolved and every
\* instruction encoded
Assembled == pc \in {"add_padding", "write_bytes_to_file", "done"}

\* the offset in the emitted bytes of the first byte emitted after line d
OffsetAfter(d) ==
    Len(EncodingsOf(Cardinality({j \in InstructionLinesOf(lines) : j < d})))

\* C29: whenever a whole program assembles successfully, the address
\* resolved for each label equals origin + the offset in the emitted byte
\* stream of the first byte emitted after the label's definition line (the
\* total length when nothing follows): the sizes counted in the first pass
\* equal the byte counts the encoder emits for every instruction.
C29_LabelAddressIsByteOffset ==
    Assembled =>
        /\ bytes = EncodingsOf(Len(instructions))
        /\ \A l \in DOMAIN LabelMap :
              LabelMap[l] = start_pos + OffsetAfter(Max(DefinitionsOf(lines, l)))
        /\ \A i \in ReferencesIn(lines) :
              instructions[IndexIn(lines, i)].operand[1].address
                  = start_pos
                    + OffsetAfter(Max(DefinitionsOf(lines,
                                      lines[i][1].instr.operand[1].name)))
        /\ \A i \in InstructionLinesOf(lines) :
              size(lines[i][1].instr)
                  = Len(to_bytes(instructions[IndexIn(lines, i)]).val)

\* an assembled program whose label follows an IndirectX instruction and is
\* referenced
C29_LabelAfterIndirectX ==
    /\ pc = "done"
    /\ \E d \in DOMAIN lines :
          /\ d > 1
          /\ lines[d][1].tag = "Label"
          /\ lines[d - 1][1].tag = "Instruction"
          /\ lines[d - 1][1].instr.operand # None
          /\ lines[d - 1][1].instr.operand[1].tag = "Address"
          /\ lines[d - 1][1].instr.operand[1].address_mode = "IndirectX"
          /\ \E i \in ReferencesIn(lines) :
                lines[i][1].instr.operand[1].name = lines[d][1].name

\* the suffixes after `$hex`: a comma, spaces or none, and the letters
WrittenSuffixes == IndexSuffixes \ {<<>>}
\* the mode the sentence of C30 gives a payload p followed by suffix s: the
\* indexed one only for the letter X or Y alone
ModeBySuffix(p, s) ==
    IF s \in {<<",","X">>, <<","," ","X">>}
    THEN (IF Len(p) <= 2 THEN "ZeroPageX" ELSE "AbsoluteX")
    ELSE IF s = <<",","Y">>
    THEN (IF Len(p) <= 2 THEN "ZeroPageY" ELSE "AbsoluteY")
    ELSE (IF Len(p) <= 2 THEN "ZeroPage" ELSE "Absolute")

\* C30 as stated: for a `$hex,<suffix>` operand, parse_operand selects the
\* X-indexed or Y-indexed mode only when the suffix is exactly the uppercase
\* letter X or Y; any other suffix, including lowercase x or y, is accepted
\* without error and yields the un-indexed ZeroPage or Absolute mode with
\* the same address value.
C30_IndexOnlyByUppercaseLetterAlways ==
    pc = "return" =>
        \A p \in HexPayloads, s \in WrittenSuffixes :
            arg.input = <<"$">> \o p \o s =>
                /\ ret[1].ok
                /\ ret[1].out.ok
                /\ ret[1].out.val = Address(HexValue(p), ModeBySuffix(p, s))

\* C30: for a `$hex,<suffix>` operand whose payload has a value that fits 32
\* bits, parse_operand selects the X-indexed or Y-indexed mode only when the
\* suffix is exactly the uppercase letter X or Y; any other suffix,
\* including lowercase x or y, is accepted without error and yields the
\* un-indexed ZeroPage or Absolute mode with the same address value; a
\* payload that does not fit gives ParseError whatever the suffix.
C30_IndexOnlyByUppercaseLetter ==
    pc = "return" =>
        \A p \in HexPayloads, s \in WrittenSuffixes :
            arg.input = <<"$">> \o p \o s =>
                /\ ret[1].ok
                /\ IF FitsU32(p)
                   THEN ret[1].out = Ok(Address(HexValue(p), ModeBySuffix(p, s)))
                   ELSE ~ret[1].out.ok /\ ret[1].out.kind = "ParseError"

\* a lowercase index letter after a four-digit payload
C30_LowercaseIndexIgnored ==
    /\ pc = "return"
    /\ arg.input = <<"$","4","4","0","0",",","x">>
    /\ ret[1] = Parsed(8, Ok(Address(\h4400, "Absolute")))

=============================================================================
